---- MODULE Spec2Model ----
(***************************************************************************)
(* LottieAnimation (src/lottie_animation.cpp): the presentation scheduler  *)
(* on the main thread and the rasterization worker thread, with the        *)
(* pending-job state (job_mutex) and the finished-frame slot (frame_mutex) *)
(* between them.                                                           *)
(*                                                                         *)
(* Granularity: every lock_guard region is one atomic step; the code a     *)
(* thread runs between two regions on state only it owns belongs to the    *)
(* step that follows or precedes it.  Floats are modelled as integers:     *)
(* frames are whole frames, time is counted in hundredths of a second.     *)
(***************************************************************************)
EXTENDS Integers, Sequences, FiniteSets, TLC

\* ---------------------------------------------------------------- bounds
Paths == {"a"}                 \* scene files the host asks for
Frames == 0 .. 1               \* frames a seek asks for
BoxSizes == {<<512, 512>>, <<256, 256>>}   \* fit box sizes the host sets
Segments == {<<1, 2>>}         \* marker ranges [begin, end) of the states
Deltas == {0}                  \* tick deltas, in hundredths of a second
Scales == {100}                \* on-screen scale, in percent
PlayDeltas == {0, 1, 3}        \* tick deltas during playback
ResizeDeltas == {5, 10}        \* tick deltas while the host zooms
ResizeScales == {62, 71, 100, 110, 900}   \* on-screen scales while the host zooms
NewScenePaths == {"b"}         \* scene files the host loads after it has cleared the path
MaxSizeArgs == {<<4096, 4096>>, <<256, 256>>, <<0, 0>>}   \* set_max_render_size arguments
SeekArgs == {-1, 0, 1, 2, 5}    \* frames a seek asks for, also outside the scene
SyncScales == {100, 62}        \* on-screen scales of the build without worker threading
AccessScales == {100, 900}     \* on-screen scales while the worker loads
MaxFrameId == 3                \* the host starts no new render once
                               \* next_frame_id has passed this id
MaxBatch == 2                  \* render_posts counts the requests of a batch up to here
Nodes == 1 .. 2                \* LottieAnimation instances of the process
RegistryKeys == {"a", "b"}     \* source identities the nodes load
NaN == 1000000                 \* the float that is not a number: every comparison with it is false
ThresholdArgs == {-5, 0, 1, 15, 50, 100, 250, NaN}       \* set_resolution_threshold arguments, in percent
BudgetArgs == {-1, 0, 15, 16, 64}                         \* set_frame_cache_budget_mb arguments
StepArgs == {-3, 0, 1, 2, 3}                              \* set_frame_cache_step arguments
SpeedArgs == {-2, 0, 1, 2, NaN}                           \* set_speed arguments
MaxPixels == 5                 \* pixel counts 0 .. MaxPixels go through the conversion
\* ARGB words 0x00000000, 0x80402010, 0xFF010203, each a uint32 written as
\* <<high 16 bits, low 16 bits>>
PixelWords == {<<0, 0>>, <<32832, 8208>>, <<65281, 515>>}
MaxUnpremulPixels == 2         \* images of up to this many pixels are unpremultiplied
\* RGBA pixels: transparent with colour left, opaque, half transparent,
\* channels above alpha, alpha 1, alpha 254
PremulPixels == {<<10, 20, 30, 0>>, <<10, 20, 30, 255>>, <<64, 32, 16, 128>>,
                 <<200, 100, 50, 100>>, <<1, 0, 0, 1>>, <<3, 5, 7, 254>>}
MaxLitPixels == 2              \* pixels with alpha > 0 in an image given to the border fix
\* <<w, h>> of the images given to the border fix; 2 x 3 and 3 x 2 have no interior
FixShapes == {<<2, 3>>, <<3, 2>>, <<3, 3>>, <<4, 3>>, <<3, 4>>}
ClearPixel == <<5, 6, 7, 0>>   \* alpha 0 with colour left in it
LitPixels == {<<200, 10, 20, 255>>, <<30, 220, 40, 1>>}
MaxUsage == 3                  \* no node loads a source whose usage count has reached this
MaxTime == 20                  \* the host stops ticking at this time, in hundredths of a second
SceneTotalFrames == 2          \* animation->totalFrame() of the scene files
SceneDuration == 2             \* animation->duration(), in hundredths of a second
MaxNested == 1                 \* calls of _render_frame that arrive while one call draws

\* ------------------------------------------------------- program constants
NoPath == ""                   \* empty String / std::string
NoScene == "none"              \* nullptr animation / picture
NoSegment == <<>>              \* a scene object with no segment set
ZeroSize == <<0, 0>>           \* Vector2i()
NoPixels == [scene |-> NoScene, segment |-> NoSegment, frame |-> 0, size |-> ZeroSize]
MinResizeInterval == 10        \* _min_resize_interval, in hundredths of a second
GridPx == 16                   \* the grid of q16
InitThresholdPct == 15         \* resolution_threshold, in percent
InitRenderSize == <<512, 512>> \* render_size and fit_box_size after construction
InitMaxRenderSize == <<4096, 4096>>    \* max_render_size after construction
InitCacheBudgetMb == 256       \* frame_cache_budget_mb after construction
MinThresholdPct == 1           \* lower bound of set_resolution_threshold, in percent
MaxThresholdPct == 100         \* upper bound of set_resolution_threshold, in percent
MinCacheBudgetMb == 16         \* lower bound of set_frame_cache_budget_mb
RingSize == 3                  \* max(2, texture_ring_size): the textures of the ring
cache_only_when_paused == TRUE \* stays set while fewer than live_cache_threshold nodes share the scene

VARIABLES
    \* pending job state, guarded by job_mutex
    worker_stop, load_pending, pending_path8, segment_pending, pending_segment,
    render_pending, pending_r_size, pending_r_frame,
    \* history: the render requests posted since the worker last took one, and
    \* how many of them the request the worker is serving stood for
    render_posts, served_batch,
    \* finished frame slot, guarded by frame_mutex
    latest_frame, next_frame_id, last_consumed_id,
    \* worker thread: position, private resources, locals of one iteration
    w_pc, w_canvas, w_animation, w_segment, w_buffer, w_render_size,
    do_load, path8_local, do_segment, seg_local, rsize_local, rframe_local, tmp,
    w_base_picture_size,
    \* history of the worker: since the last publish a scene load has failed
    \* ("failed") and the next one has succeeded ("recovered"), or neither; the
    \* main-thread fields its last step read with no mutex held; the mutexes it
    \* held while it loaded, rasterized or converted in its last step
    w_load_outcome, w_unguarded, w_work_locks,
    \* main thread
    m_pc, render_thread_enabled, render_thread, canvas, buffer,
    animation_path, animation, m_segment, playing, looping, speed,
    current_frame, total_frames, duration, frame_cache_step,
    render_size, fit_box_size, max_render_size,
    dynamic_resolution, resolution_threshold, pending_resize, pending_target_size,
    _elapsed_time, _last_resize_at,
    last_posted_size, last_posted_qf, last_rendered_qf, first_frame_drawn,
    _uploaded_this_frame, applied_resize, texture,
    \* what the host sees and sets: the signals and redraw requests the running
    \* handler has emitted, and the on-screen scale the last tick read
    emitted, last_desired_size, screen_scale,
    frame_cache_budget_mb,
    \* the pixel routines: the ARGB words of the raster buffer, the RGBA bytes
    \* they work on and its dimensions, the bytes before the last pass, and the
    \* routine that ran last
    px_src, px_rgba, px_w, px_h, px_in, px_pass,
    \* the usage registry shared by all nodes, and for every node whether it
    \* is alive, its animation_key and the source it renders
    g_anim_usage_counts, node_alive, animation_key, node_source,
    \* the texture ring: the content of its textures, the slot the next render
    \* updates (counted from 0) and the slot texture refers to (counted from 1;
    \* 0: a texture that is not in the ring)
    texture_ring, texture_ring_index, texture_slot,
    \* the frame cache: whether this node uses it, and its entries
    frame_cache_enabled, frame_cache,
    \* the re-entrancy flag of _render_frame, and history: the handler that ran
    \* last, the exit its call of _render_frame took, the calls of _render_frame
    \* made while that call was drawing, and the rasterizations of the handler
    rendering, r_last,
    \* the thread that owns job_mutex and frame_mutex, the lock operations the
    \* main thread's handler has still to do, the worker's place among its scopes
    mutex_owner, lk_main, lk_worker

jobVars == <<worker_stop, load_pending, pending_path8, segment_pending, pending_segment,
             render_pending, pending_r_size, pending_r_frame, render_posts>>
frameVars == <<latest_frame, next_frame_id, last_consumed_id>>
workerVars == <<w_pc, w_canvas, w_animation, w_segment, w_buffer, w_render_size,
                do_load, path8_local, do_segment, seg_local, rsize_local, rframe_local, tmp,
                served_batch, w_base_picture_size, w_load_outcome, w_unguarded,
                w_work_locks>>
sceneVars == <<animation_path, animation, m_segment, playing, looping, speed,
               current_frame, total_frames, duration, frame_cache_step>>
sizeVars == <<render_size, fit_box_size, max_render_size, dynamic_resolution,
              resolution_threshold, pending_resize, pending_target_size,
              _elapsed_time, _last_resize_at>>
drawVars == <<last_posted_size, last_posted_qf, last_rendered_qf, first_frame_drawn,
              _uploaded_this_frame, applied_resize, texture>>
lifeVars == <<m_pc, render_thread_enabled, render_thread, canvas, buffer>>
hostVars == <<emitted, last_desired_size, screen_scale>>
pixVars == <<px_src, px_rgba, px_w, px_h, px_in, px_pass>>
regVars == <<g_anim_usage_counts, node_alive, animation_key, node_source>>
ringVars == <<texture_ring, texture_ring_index, texture_slot>>
cacheVars == <<frame_cache_enabled, frame_cache>>
guardVars == <<rendering, r_last>>
lockVars == <<mutex_owner, lk_main, lk_worker>>
auxVars == <<frame_cache_budget_mb, pixVars, regVars, ringVars, cacheVars, guardVars,
             lockVars>>
vars == <<jobVars, frameVars, workerVars, sceneVars, sizeVars, drawVars, lifeVars, hostVars,
          auxVars>>

\* ---------------------------------------------------------------- helpers
Min(a, b) == IF a < b THEN a ELSE b
Max(a, b) == IF a > b THEN a ELSE b

\* What the engine rasterizes for a scene, its segment, a frame and a target size.
RenderPixels(scene, segment, frame, size) ==
    [scene |-> scene, segment |-> segment, frame |-> frame, size |-> size]

\* What the presented texture holds: nothing (unref), the cleared image, the
\* previous image scaled to a new size, or the pixels of a rendered frame.
BlankTexture == [kind |-> "blank", pixels |-> NoPixels]
NoTexture == [kind |-> "none", pixels |-> NoPixels]
PlaceholderTexture == [kind |-> "placeholder", pixels |-> NoPixels]
FrameTexture(pixels) == [kind |-> "frame", pixels |-> pixels]

\* _quantized_frame_index
_quantized_frame_index(frame, step) ==
    IF step <= 1 THEN frame ELSE (frame \div Max(1, step)) * Max(1, step)

\* _recreate_texture_ring: max(2, texture_ring_size) textures of the cleared image.
BlankRing == [i \in 1 .. RingSize |-> BlankTexture]

\* No handler has called _render_frame.
NoRenderCall ==
    [handler |-> "none", exit |-> "none", nested |-> 0, draws |-> 0, resized |-> FALSE]

\* ------------------------------------------------------------------- Init
\* The state after the constructor: the main canvas exists, the raster buffer
\* is allocated and _start_worker_if_needed has started the worker thread.
NodeInit ==
    /\ worker_stop = FALSE /\ load_pending = FALSE /\ pending_path8 = NoPath
    /\ segment_pending = FALSE /\ pending_segment = <<0, 0>>
    /\ render_pending = FALSE /\ pending_r_size = ZeroSize /\ pending_r_frame = 0
    /\ render_posts = 0 /\ served_batch = 0
    /\ latest_frame = [rgba |-> NoPixels, w |-> 0, h |-> 0, id |-> 0, ready |-> FALSE]
    /\ next_frame_id = 1 /\ last_consumed_id = 0
    /\ w_pc = "start" /\ w_canvas = FALSE /\ w_animation = NoScene
    /\ w_segment = NoSegment /\ w_buffer = FALSE /\ w_render_size = ZeroSize
    /\ do_load = FALSE /\ path8_local = NoPath /\ do_segment = FALSE
    /\ seg_local = <<0, 0>> /\ rsize_local = ZeroSize /\ rframe_local = 0
    /\ tmp = NoPixels
    /\ w_base_picture_size = ZeroSize /\ w_load_outcome = "none"
    /\ w_unguarded = {} /\ w_work_locks = {}
    /\ m_pc = "idle" /\ render_thread_enabled = TRUE /\ render_thread = "joinable"
    /\ canvas = TRUE /\ buffer = TRUE
    /\ animation_path = NoPath /\ animation = NoScene /\ m_segment = NoSegment
    /\ playing = FALSE /\ looping = TRUE /\ speed = 1
    /\ current_frame = 0 /\ total_frames = 0 /\ duration = 0 /\ frame_cache_step = 1
    /\ render_size = InitRenderSize /\ fit_box_size = InitRenderSize
    /\ max_render_size = InitMaxRenderSize
    /\ dynamic_resolution = TRUE /\ resolution_threshold = InitThresholdPct
    /\ pending_resize = FALSE /\ pending_target_size = ZeroSize
    /\ _elapsed_time = 0 /\ _last_resize_at = -1
    /\ last_posted_size = ZeroSize /\ last_posted_qf = -1
    /\ last_rendered_qf = -1 /\ first_frame_drawn = FALSE
    /\ _uploaded_this_frame = FALSE /\ applied_resize = FALSE
    /\ texture = BlankTexture
    /\ emitted = {} /\ last_desired_size = ZeroSize /\ screen_scale = 100
    /\ frame_cache_budget_mb = InitCacheBudgetMb
    /\ texture_ring = BlankRing /\ texture_ring_index = 0 /\ texture_slot = 1
    /\ frame_cache_enabled = FALSE /\ frame_cache = {}
    /\ rendering = FALSE /\ r_last = NoRenderCall
    /\ mutex_owner = [job |-> "free", frame |-> "free"]
    /\ lk_main = << >> /\ lk_worker = "wait_lock"

\* No pixel routine has run.
NoPixelWork ==
    /\ px_src = <<>> /\ px_rgba = <<>> /\ px_w = 0 /\ px_h = 0
    /\ px_in = <<>> /\ px_pass = "none"

\* The registry with this node alone, no scene loaded.
OneNode ==
    /\ g_anim_usage_counts = [k \in RegistryKeys |-> 0]
    /\ node_alive = [i \in Nodes |-> i = 1]
    /\ animation_key = [i \in Nodes |-> NoPath]
    /\ node_source = [i \in Nodes |-> NoPath]

Init == NodeInit /\ NoPixelWork /\ OneNode

\* ============================================================ worker thread
\* _worker_loop, lines 1764-1771: create the worker canvas; leave if that fails.
WorkerStart ==
    /\ w_pc = "start"
    /\ \E ok \in BOOLEAN :
         /\ w_canvas' = ok
         /\ w_pc' = IF ok THEN "wait" ELSE "done"
    /\ UNCHANGED <<w_animation, w_segment, w_buffer, w_render_size, do_load, path8_local,
                   do_segment, seg_local, rsize_local, rframe_local, tmp, served_batch>>
    /\ UNCHANGED <<w_base_picture_size, w_load_outcome, w_unguarded, w_work_locks>>
    /\ UNCHANGED <<jobVars, frameVars, sceneVars, sizeVars, drawVars, lifeVars>>
    /\ UNCHANGED hostVars
    /\ UNCHANGED auxVars

\* A wait predicate that does not look at the stop flag.
WaitPredicate_NoStop == load_pending \/ render_pending

\* The predicate of job_cv.wait.
WaitPredicate == worker_stop \/ load_pending \/ render_pending

\* First job_mutex region: job_cv.wait(lk, pred); if (worker_stop) break;
WorkerWait ==
    /\ w_pc = "wait"
    /\ WaitPredicate
    /\ w_pc' = IF worker_stop THEN "done" ELSE "take_jobs"
    /\ UNCHANGED <<w_canvas, w_animation, w_segment, w_buffer, w_render_size,
                   do_load, path8_local, do_segment, seg_local, rsize_local,
                   rframe_local, tmp, served_batch>>
    /\ UNCHANGED <<w_base_picture_size, w_load_outcome, w_unguarded, w_work_locks>>
    /\ UNCHANGED <<jobVars, frameVars, sceneVars, sizeVars, drawVars, lifeVars>>
    /\ UNCHANGED hostVars
    /\ UNCHANGED auxVars

\* picture->size() of a scene file: the files of SizelessPaths report no size.
SizelessPaths == {"z"}
ScenePictureSize(path) == IF path \in SizelessPaths THEN ZeroSize ELSE InitRenderSize

\* Line 1815 reads render_size with no mutex held while the main thread may be
\* reallocating: the read yields each axis of the old or of the new size.
UnguardedRenderSizeReads ==
    LET xs == {render_size[1]} \cup (IF pending_resize THEN {pending_target_size[1]} ELSE {})
        ys == {render_size[2]} \cup (IF pending_resize THEN {pending_target_size[2]} ELSE {})
    IN  {<<x, y>> : x \in xs, y \in ys}

\* Lines 1787-1801: the lock_guard scope of the copy-out closes at line 1800,
\* before the load block.
LoadBlockLocks == {}

\* The mutexes the worker holds while rasterizing when the publish scope is
\* opened ahead of the render.
RasterLocks_InsidePublish == {"frame_mutex"}

\* Lines 1835-1860: the lock_guard scope of the render copy-out closes at line
\* 1842; the frame_mutex scope opens at line 1861, after the conversion.
RasterLocks == {}

\* A load block that gives up on every load once one has failed.
LoadedScene_FailureSticks(dl, path8, ok, scene) ==
    IF ~dl THEN scene
    ELSE IF path8 = NoPath \/ ~ok \/ w_load_outcome = "failed" THEN NoScene ELSE path8

\* if (do_load) { ... }, lines 1801-1828: the scene the worker holds after the
\* load block.  ok: the parse and the push onto the canvas succeed.
LoadedScene(dl, path8, ok, scene) ==
    IF ~dl THEN scene
    ELSE IF path8 = NoPath \/ ~ok THEN NoScene ELSE path8

\* The segment block run ahead of the load block: the load then replaces the
\* scene the segment was set on.
AppliedSegment_BeforeLoad(dl, ds, seg, scene_after_load, old_segment) ==
    IF dl THEN NoSegment
    ELSE IF ds /\ scene_after_load # NoScene THEN seg ELSE old_segment

\* Lines 1801-1831: the segment of the worker's scene after the load block and
\* the segment block.  A fresh tvg::Animation has no segment; a segment is
\* applied only to a loaded scene.
AppliedSegment(dl, ds, seg, scene_after_load, old_segment) ==
    LET after_load == IF dl THEN NoSegment ELSE old_segment
    IN  IF ds /\ scene_after_load # NoScene THEN seg ELSE after_load

\* Second job_mutex region (lines 1787-1800): copy out the load request and
\* the segment request; then, on the worker's own scene, the load block and
\* the segment block (lines 1801-1831).
WorkerTakeJobs ==
    /\ w_pc = "take_jobs"
    /\ do_load' = load_pending
    /\ path8_local' = IF load_pending THEN pending_path8 ELSE NoPath
    /\ load_pending' = FALSE
    /\ do_segment' = segment_pending
    /\ seg_local' = IF segment_pending THEN pending_segment ELSE <<0, 0>>
    /\ segment_pending' = FALSE
    /\ \E parsed \in BOOLEAN, pushed \in BOOLEAN :
         LET ok == parsed /\ pushed
             loads == do_load' /\ path8_local' # NoPath
             size == ScenePictureSize(path8_local')
             sized == size[1] > 0 /\ size[2] > 0
         IN  /\ w_animation' = LoadedScene(do_load', path8_local', ok, w_animation)
             /\ w_segment' = AppliedSegment(do_load', do_segment', seg_local',
                                            w_animation', w_segment)
             /\ w_load_outcome' = IF loads /\ ~ok THEN "failed"
                                  ELSE IF loads /\ w_load_outcome = "failed" THEN "recovered"
                                  ELSE IF do_load' THEN "none"
                                  ELSE w_load_outcome
             /\ IF loads /\ parsed
                THEN IF sized
                     THEN /\ w_base_picture_size' = ScenePictureSize(path8_local')
                          /\ w_unguarded' = {}
                     ELSE /\ w_base_picture_size' \in UnguardedRenderSizeReads
                          /\ w_unguarded' = {"render_size"}
                ELSE /\ w_base_picture_size' = w_base_picture_size
                     /\ w_unguarded' = {}
             /\ w_work_locks' = IF do_load' THEN LoadBlockLocks ELSE {}
    /\ w_pc' = "take_render"
    /\ UNCHANGED <<worker_stop, pending_path8, pending_segment,
                   render_pending, pending_r_size, pending_r_frame, render_posts>>
    /\ UNCHANGED <<w_canvas, w_buffer, w_render_size, rsize_local, rframe_local, tmp,
                   served_batch>>
    /\ UNCHANGED <<frameVars, sceneVars, sizeVars, drawVars, lifeVars>>
    /\ UNCHANGED hostVars
    /\ UNCHANGED auxVars

\* An iteration that rasterizes whether or not it holds a scene.
Rasterizes_WithoutScene(rsize) ==
    rsize[1] > 0 /\ rsize[2] > 0 /\ w_canvas

\* Lines 1843-1844: the iteration rasterizes only a positive size with a scene.
Rasterizes(rsize) ==
    rsize[1] > 0 /\ rsize[2] > 0 /\ w_canvas /\ w_animation # NoScene

\* Third job_mutex region (lines 1835-1842): copy out the latest render
\* request; then _worker_apply_target_if_needed, frame(), draw, sync and the
\* conversion into tmp (lines 1843-1860).  An iteration that does not
\* rasterize ends here and its locals go out of scope.
WorkerTakeRender ==
    /\ w_pc = "take_render"
    /\ LET rsize == IF render_pending THEN pending_r_size ELSE ZeroSize
           rframe == IF render_pending THEN pending_r_frame ELSE 0
       IN  IF Rasterizes(rsize)
           THEN /\ rsize_local' = rsize
                /\ rframe_local' = rframe
                /\ w_render_size' = rsize
                /\ w_buffer' = TRUE
                /\ tmp' = RenderPixels(w_animation, w_segment, rframe, rsize)
                /\ served_batch' = render_posts
                /\ w_work_locks' = RasterLocks
                /\ w_pc' = "publish"
                /\ UNCHANGED <<do_load, path8_local, do_segment, seg_local>>
           ELSE /\ rsize_local' = ZeroSize /\ rframe_local' = 0
                /\ do_load' = FALSE /\ path8_local' = NoPath
                /\ do_segment' = FALSE /\ seg_local' = <<0, 0>>
                /\ w_pc' = "wait"
                /\ w_work_locks' = {}
                /\ UNCHANGED <<w_render_size, w_buffer, tmp, served_batch>>
    /\ w_unguarded' = {}
    /\ UNCHANGED <<w_base_picture_size, w_load_outcome>>
    /\ render_pending' = FALSE
    /\ render_posts' = 0
    /\ UNCHANGED <<worker_stop, load_pending, pending_path8, segment_pending,
                   pending_segment, pending_r_size, pending_r_frame>>
    /\ UNCHANGED <<w_canvas, w_animation, w_segment>>
    /\ UNCHANGED <<frameVars, sceneVars, sizeVars, drawVars, lifeVars>>
    /\ UNCHANGED hostVars
    /\ UNCHANGED auxVars

\* latest_frame.id = next_frame_id++ (line 1866): the id stored in the slot and
\* the counter afterwards.
PublishedId == next_frame_id

\* A publish that stores the counter without incrementing it.
NextFrameIdAfterPublish_Stuck == next_frame_id

NextFrameIdAfterPublish == next_frame_id + 1

\* frame_mutex region (lines 1861-1868): swap the frame into the slot under a
\* fresh id.  The iteration ends and its locals go out of scope.
WorkerPublish ==
    /\ w_pc = "publish"
    /\ latest_frame' = [rgba |-> tmp, w |-> w_render_size[1], h |-> w_render_size[2],
                        id |-> PublishedId, ready |-> TRUE]
    /\ next_frame_id' = NextFrameIdAfterPublish
    /\ tmp' = NoPixels
    /\ rsize_local' = ZeroSize /\ rframe_local' = 0
    /\ do_load' = FALSE /\ path8_local' = NoPath
    /\ do_segment' = FALSE /\ seg_local' = <<0, 0>>
    /\ served_batch' = 0
    /\ w_load_outcome' = "none"
    /\ w_work_locks' = {}
    /\ w_pc' = "wait"
    /\ UNCHANGED <<w_base_picture_size, w_unguarded>>
    /\ UNCHANGED last_consumed_id
    /\ UNCHANGED <<w_canvas, w_animation, w_segment, w_buffer, w_render_size>>
    /\ UNCHANGED <<jobVars, sceneVars, sizeVars, drawVars, lifeVars>>
    /\ UNCHANGED hostVars
    /\ UNCHANGED auxVars

WorkerNext ==
    \/ WorkerStart \/ WorkerWait \/ WorkerTakeJobs \/ WorkerTakeRender \/ WorkerPublish

\* ============================================================== main thread
Positive(size) == size[1] > 0 /\ size[2] > 0

\* _post_load_to_worker
_post_load_to_worker(path) ==
    IF ~render_thread_enabled
    THEN UNCHANGED <<load_pending, pending_path8, segment_pending, pending_segment,
                     render_pending, pending_r_size, pending_r_frame, render_posts>>
    ELSE /\ pending_path8' = path
         /\ load_pending' = TRUE
         /\ UNCHANGED <<segment_pending, pending_segment,
                        render_pending, pending_r_size, pending_r_frame, render_posts>>

\* A render post that shares one pending flag with the load request.
_post_render_to_worker_ClearsLoad(size, frame) ==
    IF ~render_thread_enabled
    THEN UNCHANGED <<load_pending, pending_path8, segment_pending, pending_segment,
                     render_pending, pending_r_size, pending_r_frame, render_posts>>
    ELSE /\ pending_r_size' = size
         /\ pending_r_frame' = frame
         /\ render_pending' = TRUE
         /\ render_posts' = Min(render_posts + 1, MaxBatch)
         /\ load_pending' = FALSE
         /\ UNCHANGED <<pending_path8, segment_pending, pending_segment>>

\* A render post that keeps the request already pending.
_post_render_to_worker_FirstWins(size, frame) ==
    IF ~render_thread_enabled
    THEN UNCHANGED <<load_pending, pending_path8, segment_pending, pending_segment,
                     render_pending, pending_r_size, pending_r_frame, render_posts>>
    ELSE /\ pending_r_size' = IF render_pending THEN pending_r_size ELSE size
         /\ pending_r_frame' = IF render_pending THEN pending_r_frame ELSE frame
         /\ render_pending' = TRUE
         /\ render_posts' = Min(render_posts + 1, MaxBatch)
         /\ UNCHANGED <<load_pending, pending_path8, segment_pending, pending_segment>>

\* _post_render_to_worker
_post_render_to_worker(size, frame) ==
    IF ~render_thread_enabled
    THEN UNCHANGED <<load_pending, pending_path8, segment_pending, pending_segment,
                     render_pending, pending_r_size, pending_r_frame, render_posts>>
    ELSE /\ pending_r_size' = size
         /\ pending_r_frame' = frame
         /\ render_pending' = TRUE
         /\ render_posts' = Min(render_posts + 1, MaxBatch)
         /\ UNCHANGED <<load_pending, pending_path8, segment_pending, pending_segment>>

\* _post_segment_to_worker
_post_segment_to_worker(segment) ==
    IF ~render_thread_enabled
    THEN UNCHANGED <<load_pending, pending_path8, segment_pending, pending_segment,
                     render_pending, pending_r_size, pending_r_frame, render_posts>>
    ELSE /\ pending_segment' = segment
         /\ segment_pending' = TRUE
         /\ UNCHANGED <<load_pending, pending_path8,
                        render_pending, pending_r_size, pending_r_frame, render_posts>>

\* A q16 that forgets to add 15 before masking.
Q16_RoundDown(v) == (v \div GridPx) * GridPx

\* _update_resolution_from_scale, lines 1322-1331: ceil, 16 px grid, clamp.
Q16(v) == ((v + (GridPx - 1)) \div GridPx) * GridPx
CeilScaled(v, scale) == (v * scale + 99) \div 100
DesiredSize(scale) ==
    << Min(Q16(CeilScaled(fit_box_size[1], scale)), max_render_size[1]),
       Min(Q16(CeilScaled(fit_box_size[2], scale)), max_render_size[2]) >>

Abs(v) == IF v < 0 THEN 0 - v ELSE v

\* A hysteresis test that also fires at exactly the threshold.
ResizeTriggered_AtThreshold(desired) ==
    /\ desired # render_size
    /\ \/ Abs(desired[1] - render_size[1]) * 100 >= resolution_threshold * Max(1, render_size[1])
       \/ Abs(desired[2] - render_size[2]) * 100 >= resolution_threshold * Max(1, render_size[2])

\* _update_resolution_from_scale, lines 1339-1349: the hysteresis test.
ResizeTriggered(desired) ==
    /\ desired # render_size
    /\ \/ Abs(desired[1] - render_size[1]) * 100 > resolution_threshold * Max(1, render_size[1])
       \/ Abs(desired[2] - render_size[2]) * 100 > resolution_threshold * Max(1, render_size[2])

\* _allocate_buffer_and_target: the render size it leaves.
AllocatedSize(size) ==
    IF ~Positive(size) THEN render_size
    ELSE <<Min(size[1], max_render_size[1]), Min(size[2], max_render_size[2])>>

\* _allocate_buffer_and_target: the texture it leaves (a blank ring, or the old
\* image scaled as a placeholder when the size changed).
AllocatedTexture(size, tex) ==
    IF ~Positive(size) THEN tex
    ELSE IF AllocatedSize(size) # render_size THEN PlaceholderTexture ELSE BlankTexture

\* An _update_animation that leaves the frame where the advance has put it.
_update_animation_Overshoots(delta) ==
    IF ~playing \/ animation = NoScene \/ total_frames <= 0
    THEN [frame |-> current_frame, playing |-> playing, finished |-> FALSE]
    ELSE LET f == current_frame + (total_frames * delta * speed) \div duration IN
         IF f >= total_frames
         THEN IF looping
              THEN [frame |-> f % total_frames, playing |-> TRUE, finished |-> FALSE]
              ELSE [frame |-> f, playing |-> FALSE, finished |-> TRUE]
         ELSE [frame |-> f, playing |-> TRUE, finished |-> FALSE]

\* An _update_animation that does not stop at the end of a scene that does
\* not loop.
_update_animation_KeepsPlaying(delta) ==
    IF ~playing \/ animation = NoScene \/ total_frames <= 0
    THEN [frame |-> current_frame, playing |-> playing, finished |-> FALSE]
    ELSE LET f == current_frame + (total_frames * delta * speed) \div duration IN
         IF f >= total_frames
         THEN IF looping
              THEN [frame |-> f % total_frames, playing |-> TRUE, finished |-> FALSE]
              ELSE [frame |-> total_frames - 1, playing |-> TRUE, finished |-> TRUE]
         ELSE [frame |-> f, playing |-> TRUE, finished |-> FALSE]

\* An _update_animation that restarts a looping scene at frame 0.
_update_animation_WrapsToZero(delta) ==
    IF ~playing \/ animation = NoScene \/ total_frames <= 0
    THEN [frame |-> current_frame, playing |-> playing, finished |-> FALSE]
    ELSE LET f == current_frame + (total_frames * delta * speed) \div duration IN
         IF f >= total_frames
         THEN IF looping
              THEN [frame |-> 0, playing |-> TRUE, finished |-> FALSE]
              ELSE [frame |-> total_frames - 1, playing |-> FALSE, finished |-> TRUE]
         ELSE [frame |-> f, playing |-> TRUE, finished |-> FALSE]

\* _update_animation: the frame and the playing flag after a tick of delta.
_update_animation(delta) ==
    IF ~playing \/ animation = NoScene \/ total_frames <= 0
    THEN [frame |-> current_frame, playing |-> playing, finished |-> FALSE]
    ELSE LET f == current_frame + (total_frames * delta * speed) \div duration IN
         IF f >= total_frames
         THEN IF looping
              THEN [frame |-> f % total_frames, playing |-> TRUE, finished |-> FALSE]
              ELSE [frame |-> total_frames - 1, playing |-> FALSE, finished |-> TRUE]
         ELSE [frame |-> f, playing |-> TRUE, finished |-> FALSE]

\* _render_frame on the main canvas (frame cache disabled): what it leaves in
\* texture, last_rendered_qf, first_frame_drawn and _uploaded_this_frame.
_render_frame(scene, segment, frame, size, pending, tex, uploaded) ==
    LET qf_now == _quantized_frame_index(frame, frame_cache_step)
        same == [texture |-> tex, last_rendered_qf |-> last_rendered_qf,
                 first_frame_drawn |-> first_frame_drawn, uploaded |-> uploaded]
    IN  IF ~canvas \/ scene = NoScene \/ ~buffer THEN same
        ELSE IF first_frame_drawn /\ ~pending /\ qf_now = last_rendered_qf THEN same
        ELSE [texture |-> FrameTexture(RenderPixels(scene, segment, frame, size)),
              last_rendered_qf |-> qf_now, first_frame_drawn |-> TRUE, uploaded |-> TRUE]

\* A tick that posts a render request every time.
TickPosts_Always(size, frame) == TRUE

\* The tick would post a render request (lines 1106-1107).
TickPosts(size, frame) ==
    \/ size # last_posted_size
    \/ _quantized_frame_index(frame, frame_cache_step) # last_posted_qf

\* A tick that requests a redraw whatever happened.
RedrawGate_Always(uploaded, applied) == TRUE

\* _process, line 1157: the redraw gate.
RedrawGate(uploaded, applied) == uploaded \/ applied

\* A rate limit that never skips.
RateLimited_Never(et) == FALSE

\* A rate limit that keeps skipping once a resize has been applied.
RateLimited_Sticky(et) == _last_resize_at >= 0

\* _process, line 1087: the rate limit skips the reallocation at time et.
RateLimited(et) ==
    _last_resize_at >= 0 /\ (et - _last_resize_at) < MinResizeInterval

\* _process, lines 1078-1112, worker threading enabled: clock, dynamic
\* resolution, rate-limited resize, playback, then the job_mutex region that
\* posts the render request.
ProcessPost(delta, scale, visible) ==
    /\ m_pc = "idle"
    /\ render_thread_enabled
    /\ LET et == _elapsed_time + delta
           desired == DesiredSize(scale)
           trig == dynamic_resolution /\ ResizeTriggered(desired)
           pr == pending_resize \/ trig
           pt == IF trig THEN desired ELSE pending_target_size
           limited == RateLimited(et)
           apply == pr /\ canvas /\ ~limited
           rs == IF apply THEN AllocatedSize(pt) ELSE render_size
           anim == _update_animation(delta)
           post == visible /\ TickPosts(rs, anim.frame)
       IN  /\ post => next_frame_id <= MaxFrameId
           /\ _uploaded_this_frame' = FALSE
           /\ _elapsed_time' = et
           /\ pending_target_size' = pt
           /\ pending_resize' = (pr /\ ~apply)
           /\ _last_resize_at' = IF apply THEN et ELSE _last_resize_at
           /\ render_size' = rs
           /\ texture' = IF apply THEN AllocatedTexture(pt, texture) ELSE texture
           /\ applied_resize' = apply
           /\ current_frame' = anim.frame
           /\ playing' = anim.playing
           /\ IF post
              THEN /\ _post_render_to_worker(rs, anim.frame)
                   /\ last_posted_size' = rs
                   /\ last_posted_qf' = _quantized_frame_index(anim.frame, frame_cache_step)
              ELSE UNCHANGED <<load_pending, pending_path8, segment_pending,
                               pending_segment, render_pending, pending_r_size,
                               pending_r_frame, render_posts, last_posted_size,
                               last_posted_qf>>
           /\ m_pc' = IF visible THEN "process_drain" ELSE "idle"
           /\ last_desired_size' = IF dynamic_resolution THEN desired ELSE last_desired_size
           /\ emitted' = (IF anim.finished THEN {"animation_finished"} ELSE {})
                            \cup (IF ~visible /\ RedrawGate(FALSE, apply)
                                  THEN {"queue_redraw"} ELSE {})
    /\ screen_scale' = scale
    /\ UNCHANGED worker_stop
    /\ UNCHANGED <<animation_path, animation, m_segment, looping, speed, total_frames,
                   duration, frame_cache_step>>
    /\ UNCHANGED <<fit_box_size, max_render_size, dynamic_resolution, resolution_threshold>>
    /\ UNCHANGED <<last_rendered_qf, first_frame_drawn>>
    /\ UNCHANGED <<render_thread_enabled, render_thread, canvas, buffer>>
    /\ UNCHANGED <<frameVars, workerVars>>
    /\ UNCHANGED auxVars

\* A tick that acts on every ready frame, whatever its id.
FrameIsNew_AnyReady == latest_frame.ready

\* The test that lets the tick act on the slot (line 1116).
FrameIsNew == latest_frame.ready /\ latest_frame.id > last_consumed_id

\* A tick that uploads a frame of any size.
FrameFits_AnySize == TRUE

\* The test that lets the tick upload the frame (line 1117).
FrameFits == latest_frame.w = render_size[1] /\ latest_frame.h = render_size[2]

\* _process, lines 1113-1160: the frame_mutex region that uploads or drops the
\* finished frame, then the redraw gate.
ProcessDrain ==
    /\ m_pc = "process_drain"
    /\ IF FrameIsNew
       THEN IF FrameFits
            THEN /\ texture' = FrameTexture(latest_frame.rgba)
                 /\ last_consumed_id' = latest_frame.id
                 /\ latest_frame' = [latest_frame EXCEPT !.ready = FALSE]
                 /\ _uploaded_this_frame' = TRUE
            ELSE /\ latest_frame' = [latest_frame EXCEPT !.ready = FALSE]
                 /\ UNCHANGED <<texture, last_consumed_id, _uploaded_this_frame>>
       ELSE UNCHANGED <<texture, last_consumed_id, latest_frame, _uploaded_this_frame>>
    /\ applied_resize' = FALSE
    /\ m_pc' = "idle"
    /\ UNCHANGED next_frame_id
    /\ UNCHANGED <<last_posted_size, last_posted_qf, last_rendered_qf, first_frame_drawn>>
    /\ UNCHANGED <<render_thread_enabled, render_thread, canvas, buffer>>
    /\ UNCHANGED <<jobVars, workerVars, sceneVars, sizeVars>>
    /\ emitted' = emitted \cup (IF RedrawGate(_uploaded_this_frame', applied_resize)
                                THEN {"queue_redraw"} ELSE {})
    /\ UNCHANGED <<last_desired_size, screen_scale>>
    /\ UNCHANGED auxVars

\* A scene object whose load failed: created, never parsed, not on the canvas.
UnloadedScene == "unloaded"

\* set_animation_path with a new non-empty path: _load_animation, lines 808-910,
\* up to the job_mutex region of _post_load_to_worker.  ok: the file loads on
\* the main thread.
SetAnimationPath(path, ok) ==
    /\ m_pc = "idle"
    /\ animation_path # path
    /\ next_frame_id <= MaxFrameId
    /\ animation_path' = path
    /\ m_segment' = NoSegment
    /\ IF ok
       THEN /\ animation' = path
            /\ total_frames' = SceneTotalFrames
            /\ duration' = SceneDuration
            /\ current_frame' = 0
            /\ render_size' = AllocatedSize(fit_box_size)
            /\ buffer' = TRUE
            /\ texture' = BlankTexture
            /\ _post_load_to_worker(path)
            /\ m_pc' = "load_render"
       ELSE /\ animation' = UnloadedScene
            /\ texture' = IF animation # NoScene /\ texture.kind # "none"
                          THEN BlankTexture ELSE texture
            /\ UNCHANGED <<total_frames, duration, current_frame, render_size, buffer, m_pc>>
            /\ UNCHANGED <<load_pending, pending_path8, segment_pending, pending_segment,
                           render_pending, pending_r_size, pending_r_frame, render_posts>>
    /\ UNCHANGED worker_stop
    /\ UNCHANGED <<playing, looping, speed, frame_cache_step>>
    /\ UNCHANGED <<fit_box_size, max_render_size, dynamic_resolution, resolution_threshold,
                   pending_resize, pending_target_size, _elapsed_time, _last_resize_at>>
    /\ UNCHANGED <<last_posted_size, last_posted_qf, last_rendered_qf, first_frame_drawn,
                   _uploaded_this_frame, applied_resize>>
    /\ UNCHANGED <<render_thread_enabled, render_thread, canvas>>
    /\ UNCHANGED <<frameVars, workerVars>>
    /\ \E extracted \in BOOLEAN :
         emitted' = IF ~ok /\ ~extracted THEN {"animation_loaded_false"} ELSE {}
    /\ UNCHANGED <<last_desired_size, screen_scale>>
    /\ UNCHANGED auxVars

\* _load_animation, lines 911-919: the job_mutex region of
\* _post_render_to_worker, then the main-thread render of the first frame when
\* not playing.  has_marker: a state segment is selected (line 921).
LoadPostRender(has_marker) ==
    /\ m_pc = "load_render"
    /\ _post_render_to_worker(render_size, current_frame)
    /\ LET r == IF playing
                THEN [texture |-> texture, last_rendered_qf |-> last_rendered_qf,
                      first_frame_drawn |-> first_frame_drawn,
                      uploaded |-> _uploaded_this_frame]
                ELSE _render_frame(animation, m_segment, current_frame, render_size,
                                   pending_resize, texture, _uploaded_this_frame)
       IN  /\ texture' = r.texture
           /\ last_rendered_qf' = r.last_rendered_qf
           /\ first_frame_drawn' = r.first_frame_drawn
           /\ _uploaded_this_frame' = r.uploaded
    /\ m_pc' = IF has_marker THEN "load_segment" ELSE "idle"
    /\ UNCHANGED worker_stop
    /\ UNCHANGED <<last_posted_size, last_posted_qf, applied_resize>>
    /\ UNCHANGED <<render_thread_enabled, render_thread, canvas, buffer>>
    /\ UNCHANGED <<frameVars, workerVars, sceneVars, sizeVars>>
    /\ emitted' = emitted \cup (IF playing THEN {} ELSE {"queue_redraw"})
                        \cup (IF has_marker THEN {} ELSE {"animation_loaded_true"})
    /\ UNCHANGED <<last_desired_size, screen_scale>>
    /\ UNCHANGED auxVars

\* _apply_selected_state_segment at the end of _load_animation (lines 920-926).
LoadPostSegment(segment) ==
    /\ m_pc = "load_segment"
    /\ m_segment' = IF animation # NoScene THEN segment ELSE m_segment
    /\ _post_segment_to_worker(segment)
    /\ m_pc' = "idle"
    /\ UNCHANGED worker_stop
    /\ UNCHANGED <<animation_path, animation, playing, looping, speed, current_frame,
                   total_frames, duration, frame_cache_step>>
    /\ UNCHANGED <<render_thread_enabled, render_thread, canvas, buffer>>
    /\ UNCHANGED <<frameVars, workerVars, sizeVars, drawVars>>
    /\ emitted' = emitted \cup {"animation_loaded_true"}
    /\ UNCHANGED <<last_desired_size, screen_scale>>
    /\ UNCHANGED auxVars

\* _set("state/state"): _apply_selected_state_segment, current_frame = 0, play().
SetStateSegment(segment) ==
    /\ m_pc = "idle"
    /\ animation \in Paths
    /\ m_segment' = segment
    /\ _post_segment_to_worker(segment)
    /\ current_frame' = 0
    /\ playing' = TRUE
    /\ UNCHANGED worker_stop
    /\ UNCHANGED <<animation_path, animation, looping, speed, total_frames, duration, frame_cache_step>>
    /\ UNCHANGED <<frameVars, workerVars, sizeVars, drawVars, lifeVars>>
    /\ emitted' = {}
    /\ UNCHANGED <<last_desired_size, screen_scale>>
    /\ UNCHANGED auxVars

\* seek / set_frame: clamp, render on the main canvas.
SetFrame(frame) ==
    /\ m_pc = "idle"
    /\ total_frames > 0
    /\ current_frame' = Max(0, Min(frame, total_frames - 1))
    /\ LET r == _render_frame(animation, m_segment, current_frame', render_size,
                              pending_resize, texture, _uploaded_this_frame)
       IN  /\ texture' = r.texture
           /\ last_rendered_qf' = r.last_rendered_qf
           /\ first_frame_drawn' = r.first_frame_drawn
           /\ _uploaded_this_frame' = r.uploaded
    /\ UNCHANGED <<animation_path, animation, m_segment, playing, looping, speed,
                   total_frames, duration, frame_cache_step>>
    /\ UNCHANGED <<last_posted_size, last_posted_qf, applied_resize>>
    /\ UNCHANGED <<jobVars, frameVars, workerVars, sizeVars, lifeVars>>
    /\ emitted' = {"queue_redraw"}
    /\ UNCHANGED <<last_desired_size, screen_scale>>
    /\ UNCHANGED auxVars

\* play() with a scene object: the branch that reloads the scene needs a path
\* without a scene object, which set_animation_path never leaves behind.
Play ==
    /\ m_pc = "idle"
    /\ animation # NoScene
    /\ playing' = TRUE
    /\ emitted' = {}
    /\ UNCHANGED <<last_desired_size, screen_scale>>
    /\ UNCHANGED <<animation_path, animation, m_segment, looping, speed, current_frame,
                   total_frames, duration, frame_cache_step>>
    /\ UNCHANGED <<jobVars, frameVars, workerVars, sizeVars, drawVars, lifeVars>>
    /\ UNCHANGED auxVars

\* stop(), lines 1446-1449.
Stop ==
    /\ m_pc = "idle"
    /\ playing' = FALSE
    /\ current_frame' = 0
    /\ emitted' = {}
    /\ UNCHANGED <<last_desired_size, screen_scale>>
    /\ UNCHANGED <<animation_path, animation, m_segment, looping, speed,
                   total_frames, duration, frame_cache_step>>
    /\ UNCHANGED <<jobVars, frameVars, workerVars, sizeVars, drawVars, lifeVars>>
    /\ UNCHANGED auxVars

\* pause(), lines 1451-1453.
Pause ==
    /\ m_pc = "idle"
    /\ playing' = FALSE
    /\ emitted' = {}
    /\ UNCHANGED <<last_desired_size, screen_scale>>
    /\ UNCHANGED <<animation_path, animation, m_segment, looping, speed, current_frame,
                   total_frames, duration, frame_cache_step>>
    /\ UNCHANGED <<jobVars, frameVars, workerVars, sizeVars, drawVars, lifeVars>>
    /\ UNCHANGED auxVars

\* set_looping
SetLooping(p_looping) ==
    /\ m_pc = "idle"
    /\ looping # p_looping
    /\ looping' = p_looping
    /\ emitted' = {}
    /\ UNCHANGED <<last_desired_size, screen_scale>>
    /\ UNCHANGED <<animation_path, animation, m_segment, playing, speed, current_frame,
                   total_frames, duration, frame_cache_step>>
    /\ UNCHANGED <<jobVars, frameVars, workerVars, sizeVars, drawVars, lifeVars>>
    /\ UNCHANGED auxVars

\* operator< and operator> of float.
FloatLess(a, b) == a # NaN /\ b # NaN /\ a < b
FloatGreater(a, b) == a # NaN /\ b # NaN /\ a > b

\* std::clamp(v, lo, hi): (v < lo) ? lo : (hi < v) ? hi : v
StdClamp(v, lo, hi) == IF FloatLess(v, lo) THEN lo ELSE IF FloatLess(hi, v) THEN hi ELSE v

\* MAX(a, b) of godot-cpp: ((a) > (b)) ? (a) : (b)
GodotMax(a, b) == IF FloatGreater(a, b) THEN a ELSE b

\* set_resolution_threshold
SetResolutionThreshold(p_t) ==
    /\ m_pc = "idle"
    /\ resolution_threshold' = StdClamp(p_t, MinThresholdPct, MaxThresholdPct)
    /\ emitted' = {}
    /\ UNCHANGED <<render_size, fit_box_size, max_render_size, dynamic_resolution,
                   pending_resize, pending_target_size, _elapsed_time, _last_resize_at>>
    /\ UNCHANGED <<last_desired_size, screen_scale>>
    /\ UNCHANGED <<jobVars, frameVars, workerVars, sceneVars, drawVars, lifeVars, auxVars>>

\* set_frame_cache_budget_mb: std::max(16, p_mb) on int
SetFrameCacheBudgetMb(p_mb) ==
    /\ m_pc = "idle"
    /\ frame_cache_budget_mb' = Max(MinCacheBudgetMb, p_mb)
    /\ emitted' = {}
    /\ UNCHANGED <<last_desired_size, screen_scale>>
    /\ UNCHANGED <<jobVars, frameVars, workerVars, sceneVars, sizeVars, drawVars, lifeVars>>
    /\ UNCHANGED <<pixVars, regVars, ringVars, cacheVars, guardVars, lockVars>>

\* set_frame_cache_step: std::max(1, p_step) on int
SetFrameCacheStep(p_step) ==
    /\ m_pc = "idle"
    /\ frame_cache_step' = Max(1, p_step)
    /\ emitted' = {}
    /\ UNCHANGED <<animation_path, animation, m_segment, playing, looping, speed,
                   current_frame, total_frames, duration>>
    /\ UNCHANGED <<last_desired_size, screen_scale>>
    /\ UNCHANGED <<jobVars, frameVars, workerVars, sizeVars, drawVars, lifeVars, auxVars>>

\* set_speed
SetSpeed(p_speed) ==
    /\ m_pc = "idle"
    /\ speed' = GodotMax(0, p_speed)
    /\ emitted' = {}
    /\ UNCHANGED <<animation_path, animation, m_segment, playing, looping,
                   current_frame, total_frames, duration, frame_cache_step>>
    /\ UNCHANGED <<last_desired_size, screen_scale>>
    /\ UNCHANGED <<jobVars, frameVars, workerVars, sizeVars, drawVars, lifeVars, auxVars>>

\* set_fit_box_size: _apply_sizing_policy when a scene is loaded.
SetFitBoxSize(size) ==
    /\ m_pc = "idle"
    /\ fit_box_size # size
    /\ fit_box_size' = size
    /\ IF canvas /\ animation # NoScene
       THEN /\ render_size' = AllocatedSize(size)
            /\ texture' = AllocatedTexture(size, texture)
       ELSE UNCHANGED <<render_size, texture>>
    /\ UNCHANGED <<max_render_size, dynamic_resolution, resolution_threshold,
                   pending_resize, pending_target_size, _elapsed_time, _last_resize_at>>
    /\ UNCHANGED <<last_posted_size, last_posted_qf, last_rendered_qf, first_frame_drawn,
                   _uploaded_this_frame, applied_resize>>
    /\ UNCHANGED <<jobVars, frameVars, workerVars, sceneVars, lifeVars>>
    /\ emitted' = {}
    /\ UNCHANGED <<last_desired_size, screen_scale>>
    /\ UNCHANGED auxVars

\* set_max_render_size, line 1400.
SetMaxRenderSize(p_size) ==
    /\ m_pc = "idle"
    /\ max_render_size # p_size
    /\ max_render_size' = p_size
    /\ UNCHANGED <<render_size, fit_box_size, dynamic_resolution, resolution_threshold,
                   pending_resize, pending_target_size, _elapsed_time, _last_resize_at>>
    /\ UNCHANGED <<jobVars, frameVars, workerVars, sceneVars, drawVars, lifeVars>>
    /\ emitted' = {}
    /\ UNCHANGED <<last_desired_size, screen_scale>>
    /\ UNCHANGED auxVars

\* set_animation_path with an empty path, lines 1491-1511: drop the scene and,
\* in the frame_mutex region, the finished frame.
ClearPath ==
    /\ m_pc = "idle"
    /\ animation_path # NoPath
    /\ animation_path' = NoPath
    /\ playing' = FALSE
    /\ animation' = NoScene
    /\ m_segment' = NoSegment
    /\ latest_frame' = [latest_frame EXCEPT !.ready = FALSE, !.rgba = NoPixels]
    /\ last_consumed_id' = next_frame_id
    /\ texture' = NoTexture
    /\ m_pc' = "clear_post"
    /\ UNCHANGED next_frame_id
    /\ UNCHANGED <<looping, speed, current_frame, total_frames, duration, frame_cache_step>>
    /\ UNCHANGED <<last_posted_size, last_posted_qf, last_rendered_qf, first_frame_drawn,
                   _uploaded_this_frame, applied_resize>>
    /\ UNCHANGED <<render_thread_enabled, render_thread, canvas, buffer>>
    /\ UNCHANGED <<jobVars, workerVars, sizeVars>>
    /\ emitted' = {}
    /\ UNCHANGED <<last_desired_size, screen_scale>>
    /\ UNCHANGED auxVars

\* set_animation_path with an empty path, lines 1512-1515: tell the worker.
ClearPostLoad ==
    /\ m_pc = "clear_post"
    /\ _post_load_to_worker(NoPath)
    /\ m_pc' = "idle"
    /\ UNCHANGED worker_stop
    /\ UNCHANGED <<render_thread_enabled, render_thread, canvas, buffer>>
    /\ UNCHANGED <<frameVars, workerVars, sceneVars, sizeVars, drawVars>>
    /\ emitted' = emitted \cup {"queue_redraw"}
    /\ UNCHANGED <<last_desired_size, screen_scale>>
    /\ UNCHANGED auxVars

\* ~LottieAnimation -> _cleanup_thorvg -> _stop_worker, lines 1610-1615: set
\* the stop flag under job_mutex and notify.
StopWorkerSignal ==
    /\ m_pc = "idle"
    /\ render_thread = "joinable"
    /\ worker_stop' = TRUE
    /\ m_pc' = "stop_join"
    /\ UNCHANGED <<load_pending, pending_path8, segment_pending, pending_segment,
                   render_pending, pending_r_size, pending_r_frame, render_posts>>
    /\ UNCHANGED <<render_thread_enabled, render_thread, canvas, buffer>>
    /\ UNCHANGED <<frameVars, workerVars, sceneVars, sizeVars, drawVars>>
    /\ emitted' = {}
    /\ UNCHANGED <<last_desired_size, screen_scale>>
    /\ UNCHANGED auxVars

\* A stopping thread that does not wait for the worker.
JoinReturns_Immediately == TRUE

\* render_thread.join() returns when the worker thread has left _worker_loop.
JoinReturns == w_pc = "done"

\* _stop_worker, line 1616.
StopWorkerJoin ==
    /\ m_pc = "stop_join"
    /\ JoinReturns
    /\ render_thread' = "joined"
    /\ m_pc' = "stop_free"
    /\ UNCHANGED <<render_thread_enabled, canvas, buffer>>
    /\ UNCHANGED <<jobVars, frameVars, workerVars, sceneVars, sizeVars, drawVars>>
    /\ UNCHANGED hostVars
    /\ UNCHANGED auxVars

\* _stop_worker, line 1617: _worker_free_resources; then the rest of
\* _cleanup_thorvg.
StopWorkerFree ==
    /\ m_pc = "stop_free"
    /\ w_canvas' = FALSE
    /\ w_buffer' = FALSE
    /\ w_animation' = NoScene
    /\ w_segment' = NoSegment
    /\ w_render_size' = ZeroSize
    /\ canvas' = FALSE
    /\ buffer' = FALSE
    /\ animation' = NoScene
    /\ m_segment' = NoSegment
    /\ m_pc' = "destroyed"
    /\ UNCHANGED <<w_pc, do_load, path8_local, do_segment, seg_local, rsize_local,
                   rframe_local, tmp, served_batch>>
    /\ UNCHANGED <<w_base_picture_size, w_load_outcome, w_unguarded, w_work_locks>>
    /\ UNCHANGED <<animation_path, playing, looping, speed, current_frame, total_frames,
                   duration, frame_cache_step>>
    /\ UNCHANGED <<render_thread_enabled, render_thread>>
    /\ UNCHANGED <<jobVars, frameVars, sizeVars, drawVars>>
    /\ UNCHANGED hostVars
    /\ UNCHANGED auxVars

\* The tick and the handlers of one scene load.
TickNext ==
    \/ \E delta \in Deltas, scale \in Scales, visible \in BOOLEAN :
          ProcessPost(delta, scale, visible)
    \/ ProcessDrain

\* The destructor.
StopNext ==
    \/ StopWorkerSignal
    \/ StopWorkerJoin
    \/ StopWorkerFree

\* The host loads and clears scenes, selects states and destroys the node,
\* while it ticks and the worker runs.
Next ==
    \/ WorkerNext
    \/ TickNext
    \/ \E path \in Paths, ok \in BOOLEAN : SetAnimationPath(path, ok)
    \/ \E has_marker \in BOOLEAN : LoadPostRender(has_marker)
    \/ \E segment \in Segments : LoadPostSegment(segment)
    \/ \E segment \in Segments : SetStateSegment(segment)
    \/ ClearPath
    \/ ClearPostLoad
    \/ StopNext

Spec == Init /\ [][Next]_vars

\* The host loads one scene, resizes the box and destroys the node, while it
\* ticks and the worker runs.
NextStop ==
    \/ WorkerNext
    \/ TickNext
    \/ \E path \in Paths : SetAnimationPath(path, TRUE)
    \/ \E has_marker \in BOOLEAN : LoadPostRender(has_marker)
    \/ \E segment \in Segments : LoadPostSegment(segment)
    \/ \E size \in BoxSizes : SetFitBoxSize(size)
    \/ StopNext

\* The worker thread is scheduled, and a join that can return does.
FairSpec == Init /\ [][NextStop]_vars /\ WF_vars(WorkerNext) /\ WF_vars(StopWorkerJoin)

\* The host loads a scene, seeks and resizes the box while it ticks and the
\* worker runs.
NextRender ==
    \/ WorkerNext
    \/ TickNext
    \/ \E path \in Paths : SetAnimationPath(path, TRUE)
    \/ LoadPostRender(FALSE)
    \/ \E frame \in Frames : SetFrame(frame)
    \/ \E size \in BoxSizes : SetFitBoxSize(size)

SpecRender == Init /\ [][NextRender]_vars


\* The host loads a scene, plays it with and without looping, and ticks until
\* MaxTime, while the worker runs.
NextPlay ==
    \/ WorkerNext
    \/ \E delta \in PlayDeltas, scale \in Scales, visible \in BOOLEAN :
          /\ _elapsed_time + delta <= MaxTime
          /\ ProcessPost(delta, scale, visible)
    \/ ProcessDrain
    \/ \E path \in Paths : SetAnimationPath(path, TRUE)
    \/ LoadPostRender(FALSE)
    \/ Play
    \/ \E p_looping \in BOOLEAN : SetLooping(p_looping)

SpecPlay == Init /\ [][NextPlay]_vars

\* The host loads a scene and zooms: every tick reads another on-screen scale,
\* until MaxTime, while the worker runs.
NextResize ==
    \/ WorkerNext
    \/ \E delta \in ResizeDeltas, scale \in ResizeScales, visible \in BOOLEAN :
          /\ _elapsed_time + delta <= MaxTime
          /\ ProcessPost(delta, scale, visible)
    \/ ProcessDrain
    \/ \E path \in Paths : SetAnimationPath(path, TRUE)
    \/ LoadPostRender(FALSE)

SpecResize == Init /\ [][NextResize]_vars

\* The host loads a scene, selects a state and seeks, while the worker runs.
NextSeek ==
    \/ WorkerNext
    \/ \E path \in Paths : SetAnimationPath(path, TRUE)
    \/ \E has_marker \in BOOLEAN : LoadPostRender(has_marker)
    \/ \E segment \in Segments : LoadPostSegment(segment)
    \/ \E segment \in Segments : SetStateSegment(segment)
    \/ \E frame \in Frames : SetFrame(frame)

SpecSeek == Init /\ [][NextSeek]_vars

\* The host loads a scene, clears the path and loads again, while the worker
\* runs and is scheduled.
NextReload ==
    \/ WorkerNext
    \/ \E path \in Paths : SetAnimationPath(path, TRUE)
    \/ LoadPostRender(FALSE)
    \/ ClearPath
    \/ ClearPostLoad

FairSpecReload == Init /\ [][NextReload]_vars /\ WF_vars(WorkerNext)

\* A tick of a visible node.
TickVisible ==
    \E delta \in Deltas, scale \in Scales : ProcessPost(delta, scale, TRUE)

\* The host loads, clears and reloads a scene and seeks, while the node stays
\* visible; the engine keeps ticking, a handler that has started runs to its
\* end, and the worker is scheduled.
NextConverge ==
    \/ WorkerNext
    \/ TickVisible
    \/ ProcessDrain
    \/ \E path \in Paths : SetAnimationPath(path, TRUE)
    \/ LoadPostRender(FALSE)
    \/ ClearPath
    \/ ClearPostLoad
    \/ \E frame \in Frames : SetFrame(frame)

FairSpecConverge ==
    /\ Init /\ [][NextConverge]_vars
    /\ WF_vars(WorkerNext) /\ WF_vars(TickVisible) /\ WF_vars(ProcessDrain)
    /\ WF_vars(LoadPostRender(FALSE)) /\ WF_vars(ClearPostLoad)

\* The host loads a scene, clears the path and then loads another scene, which
\* it keeps, while the node ticks and the worker runs.
NextClearReload ==
    \/ WorkerNext
    \/ TickNext
    \/ \E path \in Paths : last_consumed_id = 0 /\ SetAnimationPath(path, TRUE)
    \/ \E path \in NewScenePaths :
          animation_path = NoPath /\ last_consumed_id > 0 /\ SetAnimationPath(path, TRUE)
    \/ LoadPostRender(FALSE)
    \/ animation \in Paths /\ ClearPath
    \/ ClearPostLoad

SpecClearReload == Init /\ [][NextClearReload]_vars

\* The host loads a scene, sets the maximum render size and the fit box, and
\* ticks until MaxTime; the worker is not scheduled meanwhile.
NextMaxSize ==
    \/ \E delta \in ResizeDeltas, scale \in Scales, visible \in BOOLEAN :
          /\ _elapsed_time + delta <= MaxTime
          /\ ProcessPost(delta, scale, visible)
    \/ ProcessDrain
    \/ \E path \in Paths : SetAnimationPath(path, TRUE)
    \/ LoadPostRender(FALSE)
    \/ \E p_size \in MaxSizeArgs : SetMaxRenderSize(p_size)
    \/ \E size \in BoxSizes : SetFitBoxSize(size)

SpecMaxSize == Init /\ [][NextMaxSize]_vars

\* The host loads a scene and plays, pauses, stops and seeks it at speeds that
\* are numbers, with and without looping, and ticks until MaxTime; the worker
\* is not scheduled meanwhile.
NextControl ==
    \/ \E delta \in PlayDeltas, scale \in Scales, visible \in BOOLEAN :
          /\ _elapsed_time + delta <= MaxTime
          /\ ProcessPost(delta, scale, visible)
    \/ ProcessDrain
    \/ \E path \in Paths : SetAnimationPath(path, TRUE)
    \/ LoadPostRender(FALSE)
    \/ Play
    \/ Stop
    \/ Pause
    \/ \E frame \in SeekArgs : SetFrame(frame)
    \/ \E p_looping \in BOOLEAN : SetLooping(p_looping)
    \/ \E p_speed \in SpeedArgs \ {NaN} : SetSpeed(p_speed)

SpecControl == Init /\ [][NextControl]_vars

\* The host loads a scene file that reports no size and zooms while it ticks
\* until MaxTime, and the worker runs.
NextAccess ==
    \/ WorkerNext
    \/ \E delta \in ResizeDeltas, scale \in AccessScales, visible \in BOOLEAN :
          /\ _elapsed_time + delta <= MaxTime
          /\ ProcessPost(delta, scale, visible)
    \/ ProcessDrain
    \/ \E path \in SizelessPaths : SetAnimationPath(path, TRUE)
    \/ LoadPostRender(FALSE)

SpecAccess == Init /\ [][NextAccess]_vars

\* ========================================================= pixel routines
\* p >> n for n in {0, 8, 16, 24}, as far as its low 8 bits matter, of the
\* uint32 p = <<high 16 bits, low 16 bits>>.
ShiftRight(p, n) ==
    IF n = 0 THEN p[2]
    ELSE IF n = 8 THEN p[2] \div 256
    ELSE IF n = 16 THEN p[1]
    ELSE p[1] \div 256

\* Byte j (0 = lowest address) of a uint32 in memory, little-endian.
WordByte(p, j) == ShiftRight(p, 8 * j) % 256

\* The raster buffer as the bytes in memory that the vector loads read.
SrcBytes(src) ==
    [k \in 1 .. 4 * Len(src) |-> WordByte(src[((k - 1) \div 4) + 1], (k - 1) % 4)]

\* The shuffle mask of _mm_setr_epi8 / tbl_data, lines 42-47 and 65-67.
ShuffleMask == <<2, 1, 0, 3, 6, 5, 4, 7, 10, 9, 8, 11, 14, 13, 12, 15>>

\* The scalar loop body, lines 98-101: byte c (0 .. 3) of the RGBA pixel of p.
ScalarByte(p, c) ==
    IF c = 0 THEN ShiftRight(p, 16) % 256
    ELSE IF c = 1 THEN ShiftRight(p, 8) % 256
    ELSE IF c = 2 THEN ShiftRight(p, 0) % 256
    ELSE ShiftRight(p, 24) % 256

\* The scalar build, lines 95-103.
ConvertScalar(src) ==
    [k \in 1 .. 4 * Len(src) |-> ScalarByte(src[((k - 1) \div 4) + 1], (k - 1) % 4)]

\* A vector build without the tail loop: the tail keeps the zeroes of resize().
ConvertVector_NoTail(src) ==
    LET vec_count == Len(src) \div 4
        mem == SrcBytes(src)
    IN  [k \in 1 .. 4 * Len(src) |->
            IF (k - 1) \div 16 < vec_count
            THEN mem[((k - 1) \div 16) * 16 + ShuffleMask[((k - 1) % 16) + 1] + 1]
            ELSE 0]

\* The SSSE3 / NEON build, lines 38-93: count / 4 shuffles of 16 bytes, then
\* the scalar tail from vec_count * 4.
ConvertVector(src) ==
    LET vec_count == Len(src) \div 4
        mem == SrcBytes(src)
    IN  [k \in 1 .. 4 * Len(src) |->
            IF (k - 1) \div 16 < vec_count
            THEN mem[((k - 1) \div 16) * 16 + ShuffleMask[((k - 1) % 16) + 1] + 1]
            ELSE ScalarByte(src[((k - 1) \div 4) + 1], (k - 1) % 4)]

\* _convert_argb_to_rgba_optimized compiled with SSSE3 or NEON.
ConvertOptimizedSimd ==
    /\ px_pass = "none"
    /\ px_rgba' = ConvertVector(px_src)
    /\ px_pass' = "convert_simd"
    /\ UNCHANGED <<px_src, px_w, px_h, px_in>>
    /\ UNCHANGED <<jobVars, frameVars, workerVars, sceneVars, sizeVars, drawVars, lifeVars,
                   hostVars, frame_cache_budget_mb, regVars,
                   ringVars, cacheVars, guardVars, lockVars>>

\* _convert_argb_to_rgba_optimized compiled without SIMD.
ConvertOptimizedScalar ==
    /\ px_pass = "none"
    /\ px_rgba' = ConvertScalar(px_src)
    /\ px_pass' = "convert_scalar"
    /\ UNCHANGED <<px_src, px_w, px_h, px_in>>
    /\ UNCHANGED <<jobVars, frameVars, workerVars, sceneVars, sizeVars, drawVars, lifeVars,
                   hostVars, frame_cache_budget_mb, regVars,
                   ringVars, cacheVars, guardVars, lockVars>>

\* Every raster buffer of up to MaxPixels pixels goes through the conversion.
InitConvert ==
    /\ NodeInit /\ OneNode
    /\ px_src \in UNION {[1 .. n -> PixelWords] : n \in 0 .. MaxPixels}
    /\ px_rgba = <<>> /\ px_w = 0 /\ px_h = 0 /\ px_in = <<>> /\ px_pass = "none"

NextConvert == ConvertOptimizedSimd \/ ConvertOptimizedScalar

SpecConvert == InitConvert /\ [][NextConvert]_vars

\* The bytes of an image given as a sequence of <<r, g, b, a>> pixels.
RgbaBytes(pixels) ==
    [k \in 1 .. 4 * Len(pixels) |-> pixels[((k - 1) \div 4) + 1][((k - 1) % 4) + 1]]

\* std::min(a, b): a unless b < a.
StdMin(a, b) == IF b < a THEN b ELSE a

\* One channel without the rounding term a / 2.
UnpremultiplyChannel_Truncates(c, a) == StdMin(255, (c * 255) \div a) % 256

\* Lines 160-162: (uint8_t)std::min(255, (int)((int)c * 255 + (a / 2)) / (int)a).
UnpremultiplyChannel(c, a) == StdMin(255, (c * 255 + (a \div 2)) \div a) % 256

\* _unpremultiply_alpha_rgba, lines 148-164, on the bytes of a w x h image.
UnpremultipliedRgba(rgba, w, h) ==
    IF w <= 0 \/ h <= 0 THEN rgba
    ELSE [k \in 1 .. Len(rgba) |->
            LET i == (k - 1) \div 4
                c == (k - 1) % 4
                a == rgba[4 * i + 4]
            IN  IF i >= w * h \/ c = 3 THEN rgba[k]
                ELSE IF a = 0 THEN 0
                ELSE IF a = 255 THEN rgba[k]
                ELSE UnpremultiplyChannel(rgba[k], a)]

\* One call of _unpremultiply_alpha_rgba on the buffer, in place.
Unpremultiply ==
    /\ px_in' = px_rgba
    /\ px_rgba' = UnpremultipliedRgba(px_rgba, px_w, px_h)
    /\ px_pass' = "unpremultiply"
    /\ UNCHANGED <<px_src, px_w, px_h>>
    /\ UNCHANGED <<jobVars, frameVars, workerVars, sceneVars, sizeVars, drawVars, lifeVars,
                   hostVars, frame_cache_budget_mb, regVars,
                   ringVars, cacheVars, guardVars, lockVars>>

\* Every image of up to MaxUnpremulPixels pixels, empty ones included.
InitUnpremultiply ==
    /\ NodeInit /\ OneNode
    /\ px_w \in 0 .. MaxUnpremulPixels /\ px_h \in 0 .. MaxUnpremulPixels
    /\ px_w * px_h <= MaxUnpremulPixels
    /\ \E pixels \in [1 .. px_w * px_h -> PremulPixels] : px_rgba = RgbaBytes(pixels)
    /\ px_src = <<>> /\ px_in = <<>> /\ px_pass = "none"

NextUnpremultiply == Unpremultiply

SpecUnpremultiply == InitUnpremultiply /\ [][NextUnpremultiply]_vars

\* The neighbours as <<dx, dy>> with dx the outer loop.
NeighbourOrder_ColumnMajor ==
    << <<-1, -1>>, <<-1, 0>>, <<-1, 1>>, <<0, -1>>, <<0, 1>>, <<1, -1>>, <<1, 0>>, <<1, 1>> >>

\* The neighbours as <<dx, dy>> in the order of the loops of lines 130-132:
\* dy outer, dx inner, (0, 0) skipped.
NeighbourOrder ==
    << <<-1, -1>>, <<0, -1>>, <<1, -1>>, <<-1, 0>>, <<1, 0>>, <<-1, 1>>, <<0, 1>>, <<1, 1>> >>

\* at(x, y), line 122: the offset of the pixel's first byte in rgba.
At(w, x, y) == (y * w + x) * 4

\* at_rgb(x, y), line 123: the offset of the pixel's first byte in rgb_copy.
AtRgb(w, x, y) == (y * w + x) * 3

\* rgb_copy as filled by lines 112-121.
RgbCopy(rgba, w, h) ==
    [k \in 1 .. 3 * w * h |-> rgba[((k - 1) \div 3) * 4 + ((k - 1) % 3) + 1]]

\* The position in NeighbourOrder of the first neighbour of (x, y) whose
\* alpha in rgba is above 0, or 0 when there is none (lines 130-134).
FirstLitNeighbour(rgba, w, x, y) ==
    LET lit == {n \in 1 .. 8 :
                   rgba[At(w, x + NeighbourOrder[n][1], y + NeighbourOrder[n][2]) + 4] > 0}
    IN  IF lit = {} THEN 0 ELSE CHOOSE n \in lit : \A m \in lit : n <= m

\* The loops of lines 124-144 from the k-th interior pixel on, writing rgba in place.
RECURSIVE FixPass(_, _, _, _, _)
FixPass(rgba, rgb_copy, w, h, k) ==
    IF k >= (w - 2) * (h - 2) THEN rgba
    ELSE LET x == 1 + (k % (w - 2))
             y == 1 + (k \div (w - 2))
             px == At(w, x, y)
             n == FirstLitNeighbour(rgba, w, x, y)
         IN  IF rgba[px + 4] # 0 \/ n = 0 THEN FixPass(rgba, rgb_copy, w, h, k + 1)
             ELSE LET nrgb == AtRgb(w, x + NeighbourOrder[n][1], y + NeighbourOrder[n][2])
                      written == [j \in 1 .. Len(rgba) |->
                                     IF j \in (px + 1) .. (px + 3)
                                     THEN rgb_copy[nrgb + (j - px)]
                                     ELSE rgba[j]]
                  IN  FixPass(written, rgb_copy, w, h, k + 1)

\* _fix_alpha_border_rgba, lines 108-145, on the bytes of a w x h image.
FixedAlphaBorderRgba(rgba, w, h) ==
    IF w <= 2 \/ h <= 2 THEN rgba
    ELSE FixPass(rgba, RgbCopy(rgba, w, h), w, h, 0)

\* One call of _fix_alpha_border_rgba on the buffer, in place.
FixAlphaBorder ==
    /\ px_in' = px_rgba
    /\ px_rgba' = FixedAlphaBorderRgba(px_rgba, px_w, px_h)
    /\ px_pass' = "fix_alpha_border"
    /\ UNCHANGED <<px_src, px_w, px_h>>
    /\ UNCHANGED <<jobVars, frameVars, workerVars, sceneVars, sizeVars, drawVars, lifeVars,
                   hostVars, frame_cache_budget_mb, regVars,
                   ringVars, cacheVars, guardVars, lockVars>>

\* Every image of a shape in FixShapes that is ClearPixel except in up to
\* MaxLitPixels places, which hold pixels with alpha above 0.
InitBorderFix ==
    /\ NodeInit /\ OneNode
    /\ \E shape \in FixShapes : px_w = shape[1] /\ px_h = shape[2]
    /\ \E places \in {P \in SUBSET (1 .. px_w * px_h) : Cardinality(P) <= MaxLitPixels} :
         \E fill \in [places -> LitPixels] :
            px_rgba = RgbaBytes([k \in 1 .. px_w * px_h |->
                                    IF k \in places THEN fill[k] ELSE ClearPixel])
    /\ px_src = <<>> /\ px_in = <<>> /\ px_pass = "none"

NextBorderFix == FixAlphaBorder

SpecBorderFix == InitBorderFix /\ [][NextBorderFix]_vars

\* ========================================================== usage registry
\* _registry_inc: g_anim_usage_counts[key] += 1 (a missing key starts at 0).
_registry_inc(counts, key) ==
    IF key = NoPath THEN counts ELSE [counts EXCEPT ![key] = @ + 1]

\* _registry_dec: decrement a key that is present; erase it at zero.  A count
\* of 0 stands for an absent key.
_registry_dec(counts, key) ==
    IF key = NoPath \/ counts[key] = 0 THEN counts
    ELSE [counts EXCEPT ![key] = @ - 1]

\* A node is constructed: no animation_key, nothing loaded.
NodeCreate(i) ==
    /\ ~node_alive[i]
    /\ node_alive' = [node_alive EXCEPT ![i] = TRUE]
    /\ animation_key' = [animation_key EXCEPT ![i] = NoPath]
    /\ node_source' = [node_source EXCEPT ![i] = NoPath]
    /\ UNCHANGED g_anim_usage_counts
    /\ UNCHANGED <<jobVars, frameVars, workerVars, sceneVars, sizeVars, drawVars, lifeVars,
                   hostVars, frame_cache_budget_mb, pixVars,
                   ringVars, cacheVars, guardVars, lockVars>>

\* _load_animation of node i, lines 817-884: the old picture is dropped; a
\* failed load returns before the registry is touched; a successful one
\* releases the old key if it differs, stores the new key and counts it.
NodeLoad(i, path, ok) ==
    /\ node_alive[i]
    /\ g_anim_usage_counts[path] < MaxUsage
    /\ IF ok
       THEN LET released == IF animation_key[i] # NoPath /\ animation_key[i] # path
                            THEN _registry_dec(g_anim_usage_counts, animation_key[i])
                            ELSE g_anim_usage_counts
            IN  /\ g_anim_usage_counts' = _registry_inc(released, path)
                /\ animation_key' = [animation_key EXCEPT ![i] = path]
                /\ node_source' = [node_source EXCEPT ![i] = path]
       ELSE /\ node_source' = [node_source EXCEPT ![i] = NoPath]
            /\ UNCHANGED <<g_anim_usage_counts, animation_key>>
    /\ UNCHANGED node_alive
    /\ UNCHANGED <<jobVars, frameVars, workerVars, sceneVars, sizeVars, drawVars, lifeVars,
                   hostVars, frame_cache_budget_mb, pixVars,
                   ringVars, cacheVars, guardVars, lockVars>>

\* set_animation_path("") of node i, lines 1491-1515: the scene is dropped;
\* neither animation_key nor the registry is touched.
NodeClearPath(i) ==
    /\ node_alive[i]
    /\ node_source[i] # NoPath
    /\ node_source' = [node_source EXCEPT ![i] = NoPath]
    /\ UNCHANGED <<g_anim_usage_counts, node_alive, animation_key>>
    /\ UNCHANGED <<jobVars, frameVars, workerVars, sceneVars, sizeVars, drawVars, lifeVars,
                   hostVars, frame_cache_budget_mb, pixVars,
                   ringVars, cacheVars, guardVars, lockVars>>

\* ~LottieAnimation of node i, lines 746-750.
NodeDestroy(i) ==
    /\ node_alive[i]
    /\ g_anim_usage_counts' = _registry_dec(g_anim_usage_counts, animation_key[i])
    /\ node_alive' = [node_alive EXCEPT ![i] = FALSE]
    /\ node_source' = [node_source EXCEPT ![i] = NoPath]
    /\ UNCHANGED animation_key
    /\ UNCHANGED <<jobVars, frameVars, workerVars, sceneVars, sizeVars, drawVars, lifeVars,
                   hostVars, frame_cache_budget_mb, pixVars,
                   ringVars, cacheVars, guardVars, lockVars>>

\* The host creates nodes, loads and reloads sources, clears paths and
\* destroys nodes.
NextRegistry ==
    \/ \E i \in Nodes : NodeCreate(i)
    \/ \E i \in Nodes, path \in RegistryKeys, ok \in BOOLEAN : NodeLoad(i, path, ok)
    \/ \E i \in Nodes : NodeClearPath(i)
    \/ \E i \in Nodes : NodeDestroy(i)

SpecRegistry == Init /\ [][NextRegistry]_vars

\* The host calls the clamping setters with arbitrary arguments.
NextSetters ==
    \/ \E p_t \in ThresholdArgs : SetResolutionThreshold(p_t)
    \/ \E p_mb \in BudgetArgs : SetFrameCacheBudgetMb(p_mb)
    \/ \E p_step \in StepArgs : SetFrameCacheStep(p_step)
    \/ \E p_speed \in SpeedArgs : SetSpeed(p_speed)

SpecSetters == Init /\ [][NextSetters]_vars

\* ================================================= main-thread renderer
\* The build without worker threading (render_thread_enabled = false): every
\* frame is rasterized by _render_frame inside the handler that asks for it.
\* The texture ring and the frame cache are followed here; with the frame cache
\* disabled no texture outlives its place on screen, and texture alone stands
\* for the ring.  LottieFrameCache keeps the texture it is given under
\* (animation_key, quantized frame, size) and returns it on a hit; it may drop
\* an entry at any time.

\* The state after the constructor of that build: _start_worker_if_needed
\* returns without starting a thread.
SyncNodeInit ==
    /\ worker_stop = FALSE /\ load_pending = FALSE /\ pending_path8 = NoPath
    /\ segment_pending = FALSE /\ pending_segment = <<0, 0>>
    /\ render_pending = FALSE /\ pending_r_size = ZeroSize /\ pending_r_frame = 0
    /\ render_posts = 0 /\ served_batch = 0
    /\ latest_frame = [rgba |-> NoPixels, w |-> 0, h |-> 0, id |-> 0, ready |-> FALSE]
    /\ next_frame_id = 1 /\ last_consumed_id = 0
    /\ w_pc = "start" /\ w_canvas = FALSE /\ w_animation = NoScene
    /\ w_segment = NoSegment /\ w_buffer = FALSE /\ w_render_size = ZeroSize
    /\ do_load = FALSE /\ path8_local = NoPath /\ do_segment = FALSE
    /\ seg_local = <<0, 0>> /\ rsize_local = ZeroSize /\ rframe_local = 0
    /\ tmp = NoPixels
    /\ w_base_picture_size = ZeroSize /\ w_load_outcome = "none"
    /\ w_unguarded = {} /\ w_work_locks = {}
    /\ m_pc = "idle" /\ render_thread_enabled = FALSE /\ render_thread = "none"
    /\ canvas = TRUE /\ buffer = TRUE
    /\ animation_path = NoPath /\ animation = NoScene /\ m_segment = NoSegment
    /\ playing = FALSE /\ looping = TRUE /\ speed = 1
    /\ current_frame = 0 /\ total_frames = 0 /\ duration = 0 /\ frame_cache_step = 1
    /\ render_size = InitRenderSize /\ fit_box_size = InitRenderSize
    /\ max_render_size = InitMaxRenderSize
    /\ dynamic_resolution = TRUE /\ resolution_threshold = InitThresholdPct
    /\ pending_resize = FALSE /\ pending_target_size = ZeroSize
    /\ _elapsed_time = 0 /\ _last_resize_at = -1
    /\ last_posted_size = ZeroSize /\ last_posted_qf = -1
    /\ last_rendered_qf = -1 /\ first_frame_drawn = FALSE
    /\ _uploaded_this_frame = FALSE /\ applied_resize = FALSE
    /\ texture = BlankTexture
    /\ emitted = {} /\ last_desired_size = ZeroSize /\ screen_scale = 100
    /\ frame_cache_budget_mb = InitCacheBudgetMb
    /\ texture_ring = BlankRing /\ texture_ring_index = 0 /\ texture_slot = 1
    /\ frame_cache_enabled = FALSE /\ frame_cache = {}
    /\ rendering = FALSE /\ r_last = NoRenderCall
    /\ mutex_owner = [job |-> "free", frame |-> "free"]
    /\ lk_main = << >> /\ lk_worker = "wait_lock"

SyncInit == SyncNodeInit /\ NoPixelWork /\ OneNode

\* What _render_frame reads and writes of the presentation state.
CurrentDraw ==
    [ring |-> texture_ring, index |-> texture_ring_index, slot |-> texture_slot,
     texture |-> texture, cache |-> frame_cache, lrq |-> last_rendered_qf,
     ffd |-> first_frame_drawn, uploaded |-> _uploaded_this_frame]

\* What a cached texture shows: a texture of the ring shows what its slot
\* holds, a texture of a ring that was replaced shows what it held then.
CacheContent(e, ring) == IF e.slot # 0 THEN ring[e.slot] ELSE e.kept

\* The cache entries after _recreate_texture_ring has replaced the ring: the
\* cached textures are no longer slots of the ring.
DetachedCache(cache, ring) ==
    { [key |-> e.key, qf |-> e.qf, size |-> e.size, slot |-> 0,
       kept |-> CacheContent(e, ring)] : e \in cache }

\* LottieFrameCache::get: the entries under the key (none: a miss).
CacheGet(cache, key, qf, size) ==
    { e \in cache : e.key = key /\ e.qf = qf /\ e.size = size }

\* LottieFrameCache::put: the entry under the key is the texture of slot.
CachePut(cache, key, qf, size, slot) ==
    (cache \ CacheGet(cache, key, qf, size))
        \cup { [key |-> key, qf |-> qf, size |-> size, slot |-> slot, kept |-> NoTexture] }

\* _allocate_buffer_and_target, lines 1206-1223: the ring it leaves (slot 0
\* holds the old image scaled as a placeholder when the size changed).
AllocatedRing(size) ==
    IF ~Positive(size) THEN texture_ring
    ELSE IF AllocatedSize(size) # render_size
         THEN [BlankRing EXCEPT ![1] = PlaceholderTexture]
         ELSE BlankRing

\* _allocate_buffer_and_target(size) on the presentation state.
Allocated(st, size) ==
    IF ~Positive(size) THEN st
    ELSE [st EXCEPT !.ring = AllocatedRing(size), !.index = 0, !.slot = 1,
                    !.texture = AllocatedRing(size)[1],
                    !.cache = DetachedCache(st.cache, st.ring)]

\* A staleness test that always asks for a render.
Stale_Always(pending, qf, ffd, lrq) == TRUE

\* The test of line 1151, and of line 988 negated: a resize is pending, nothing
\* has been drawn yet, or the quantized frame differs from the one last rendered.
Stale(pending, qf, ffd, lrq) == pending \/ ~ffd \/ qf # lrq

\* Lines 992 and 1036: the frame cache is consulted and filled.
Cacheable(is_playing) == frame_cache_enabled /\ (~cache_only_when_paused \/ ~is_playing)

\* Line 977: the call finds a render in progress.
Busy(flag) == flag

\* A guard that resets the flag only at the end of the function.
GuardReleased_OnlyAtEnd(exit) == exit = "drawn"

\* Line 981: the scoped guard resets the flag on every return after line 980.
GuardReleased(exit) == TRUE

\* The exit a call of _render_frame takes.
RenderExit(st, busy, scene, frame, size, pending, is_playing) ==
    LET qf == _quantized_frame_index(frame, frame_cache_step) IN
    IF Busy(busy) THEN "reentered"
    ELSE IF ~canvas \/ scene = NoScene \/ ~buffer THEN "no_scene"
    ELSE IF ~Stale(pending, qf, st.ffd, st.lrq) THEN "unchanged"
    ELSE IF Cacheable(is_playing) /\ CacheGet(st.cache, scene, qf, size) # {}
         THEN "cache_hit"
    ELSE "drawn"

\* Lines 996-999: the cached texture is presented.
CacheHit(st, scene, frame, size) ==
    LET qf == _quantized_frame_index(frame, frame_cache_step)
        e == CHOOSE x \in CacheGet(st.cache, scene, qf, size) : TRUE
    IN  [st EXCEPT !.slot = e.slot, !.texture = CacheContent(e, st.ring),
                   !.uploaded = TRUE]

\* Lines 1004-1043: rasterize, update the next ring slot and present it, store
\* it in the cache, note the frame.
Drawn(st, scene, segment, frame, size, is_playing) ==
    LET qf == _quantized_frame_index(frame, frame_cache_step)
        k == st.index + 1
        img == FrameTexture(RenderPixels(scene, segment, frame, size))
    IN  [ring |-> [st.ring EXCEPT ![k] = img],
         index |-> (st.index + 1) % RingSize,
         slot |-> k,
         texture |-> img,
         cache |-> IF Cacheable(is_playing)
                   THEN CachePut(st.cache, scene, qf, size, k) ELSE st.cache,
         lrq |-> qf, ffd |-> TRUE, uploaded |-> TRUE]

\* One call of _render_frame that nothing interrupts: the presentation state
\* it leaves, its exit, its rasterizations, the flag it leaves.
RenderOnce(st, busy, scene, segment, frame, size, pending, is_playing) ==
    LET exit == RenderExit(st, busy, scene, frame, size, pending, is_playing) IN
    [st |-> IF exit = "cache_hit" THEN CacheHit(st, scene, frame, size)
            ELSE IF exit = "drawn" THEN Drawn(st, scene, segment, frame, size, is_playing)
            ELSE st,
     exit |-> exit,
     draws |-> IF exit = "drawn" THEN 1 ELSE 0,
     rendering |-> IF exit = "reentered" THEN busy ELSE ~GuardReleased(exit)]

\* n calls of _render_frame made while a call is drawing (the flag is set).
RECURSIVE NestedCalls(_, _, _, _, _, _, _, _)
NestedCalls(st, n, scene, segment, frame, size, pending, is_playing) ==
    IF n = 0 THEN [st |-> st, draws |-> 0]
    ELSE LET r == RenderOnce(st, TRUE, scene, segment, frame, size, pending, is_playing)
             rest == NestedCalls(r.st, n - 1, scene, segment, frame, size, pending,
                                 is_playing)
         IN  [st |-> rest.st, draws |-> r.draws + rest.draws]

\* _render_frame, lines 975-1044, with nested calls of it arriving while it
\* draws.
RenderFrame(st, busy, scene, segment, frame, size, pending, is_playing, nested) ==
    LET exit == RenderExit(st, busy, scene, frame, size, pending, is_playing) IN
    IF exit = "drawn"
    THEN LET inner == NestedCalls(st, nested, scene, segment, frame, size, pending,
                                  is_playing)
         IN  [st |-> Drawn(inner.st, scene, segment, frame, size, is_playing),
              exit |-> exit, nested |-> nested, draws |-> 1 + inner.draws,
              rendering |-> ~GuardReleased(exit)]
    ELSE LET r == RenderOnce(st, busy, scene, segment, frame, size, pending, is_playing)
         IN  [st |-> r.st, exit |-> exit, nested |-> 0, draws |-> 0,
              rendering |-> r.rendering]

\* The presentation state a handler leaves.
PresentDraw(st) ==
    /\ texture_ring' = st.ring
    /\ texture_ring_index' = st.index
    /\ texture_slot' = st.slot
    /\ texture' = st.texture
    /\ frame_cache' = st.cache
    /\ last_rendered_qf' = st.lrq
    /\ first_frame_drawn' = st.ffd
    /\ _uploaded_this_frame' = st.uploaded

\* set_animation_path with a new non-empty path on a node that holds no scene
\* object yet: _load_animation, lines 808-926, worker threading disabled.
\* ok: the file loads.  nested: calls of _render_frame that arrive while the
\* first frame is drawn.
SyncLoad(path, ok, nested) ==
    /\ m_pc = "idle"
    /\ ~render_thread_enabled
    /\ animation = NoScene
    /\ animation_path # path
    /\ animation_path' = path
    /\ m_segment' = NoSegment
    /\ IF ok
       THEN LET rs == AllocatedSize(fit_box_size)
                a0 == Allocated(CurrentDraw, fit_box_size)
                st0 == [a0 EXCEPT !.ring = BlankRing, !.index = 0, !.slot = 1,
                                  !.texture = BlankTexture,
                                  !.cache = DetachedCache(a0.cache, a0.ring)]
                r1 == RenderFrame(st0, rendering, path, NoSegment, 0, rs,
                                  pending_resize, playing, nested)
                r2 == IF playing
                      THEN [r1 EXCEPT !.draws = 0]
                      ELSE RenderFrame(r1.st, r1.rendering, path, NoSegment, 0, rs,
                                       pending_resize, playing, 0)
            IN  /\ animation' = path
                /\ total_frames' = SceneTotalFrames
                /\ duration' = SceneDuration
                /\ current_frame' = 0
                /\ render_size' = rs
                /\ buffer' = TRUE
                /\ PresentDraw(r2.st)
                /\ rendering' = r2.rendering
                /\ r_last' = [handler |-> "load", exit |-> r1.exit, nested |-> r1.nested,
                              draws |-> r1.draws + r2.draws, resized |-> FALSE]
                /\ emitted' = (IF playing THEN {} ELSE {"queue_redraw"})
                                  \cup {"animation_loaded_true"}
       ELSE /\ animation' = UnloadedScene
            /\ UNCHANGED <<total_frames, duration, current_frame, render_size, buffer>>
            /\ UNCHANGED <<texture_ring, texture_ring_index, texture_slot, texture,
                           frame_cache, last_rendered_qf, first_frame_drawn,
                           _uploaded_this_frame, rendering>>
            /\ r_last' = [handler |-> "load", exit |-> "none", nested |-> 0,
                          draws |-> 0, resized |-> FALSE]
            /\ \E extracted \in BOOLEAN :
                 emitted' = IF ~extracted THEN {"animation_loaded_false"} ELSE {}
    /\ UNCHANGED <<playing, looping, speed, frame_cache_step>>
    /\ UNCHANGED <<fit_box_size, max_render_size, dynamic_resolution, resolution_threshold,
                   pending_resize, pending_target_size, _elapsed_time, _last_resize_at>>
    /\ UNCHANGED <<last_posted_size, last_posted_qf, applied_resize>>
    /\ UNCHANGED <<m_pc, render_thread_enabled, render_thread, canvas>>
    /\ UNCHANGED <<jobVars, frameVars, workerVars>>
    /\ UNCHANGED <<last_desired_size, screen_scale>>
    /\ UNCHANGED <<frame_cache_budget_mb, pixVars, regVars, frame_cache_enabled, lockVars>>

\* _process, lines 1078-1160, worker threading disabled: clock, dynamic
\* resolution, rate-limited resize, playback, the render on the main thread
\* (lines 1148-1154), the redraw gate.
SyncTick(delta, scale, visible, nested) ==
    /\ m_pc = "idle"
    /\ ~render_thread_enabled
    /\ LET et == _elapsed_time + delta
           desired == DesiredSize(scale)
           trig == dynamic_resolution /\ ResizeTriggered(desired)
           pr == pending_resize \/ trig
           pt == IF trig THEN desired ELSE pending_target_size
           limited == RateLimited(et)
           apply == pr /\ canvas /\ ~limited
           rs == IF apply THEN AllocatedSize(pt) ELSE render_size
           anim == _update_animation(delta)
           qf == _quantized_frame_index(anim.frame, frame_cache_step)
           reset == [CurrentDraw EXCEPT !.uploaded = FALSE]
           st0 == IF apply THEN Allocated(reset, pt) ELSE reset
           call == visible /\ Stale(pr /\ ~apply, qf, st0.ffd, st0.lrq)
           r == RenderFrame(st0, rendering, animation, m_segment, anim.frame, rs,
                            pr /\ ~apply, anim.playing, nested)
           st1 == IF call THEN r.st ELSE st0
       IN  /\ (nested > 0) => (call /\ r.exit = "drawn")
           /\ _elapsed_time' = et
           /\ pending_target_size' = pt
           /\ pending_resize' = (pr /\ ~apply)
           /\ _last_resize_at' = IF apply THEN et ELSE _last_resize_at
           /\ render_size' = rs
           /\ applied_resize' = FALSE
           /\ current_frame' = anim.frame
           /\ playing' = anim.playing
           /\ PresentDraw(st1)
           /\ rendering' = IF call THEN r.rendering ELSE rendering
           /\ r_last' = IF call
                        THEN [handler |-> "tick", exit |-> r.exit, nested |-> r.nested,
                              draws |-> r.draws, resized |-> apply]
                        ELSE [handler |-> "tick", exit |-> "not_called", nested |-> 0,
                              draws |-> 0, resized |-> apply]
           /\ last_desired_size' = IF dynamic_resolution THEN desired ELSE last_desired_size
           /\ emitted' = (IF anim.finished THEN {"animation_finished"} ELSE {})
                            \cup (IF RedrawGate(st1.uploaded, apply)
                                  THEN {"queue_redraw"} ELSE {})
    /\ screen_scale' = scale
    /\ UNCHANGED <<animation_path, animation, m_segment, looping, speed, total_frames,
                   duration, frame_cache_step>>
    /\ UNCHANGED <<fit_box_size, max_render_size, dynamic_resolution, resolution_threshold>>
    /\ UNCHANGED <<last_posted_size, last_posted_qf>>
    /\ UNCHANGED lifeVars
    /\ UNCHANGED <<jobVars, frameVars, workerVars>>
    /\ UNCHANGED <<frame_cache_budget_mb, pixVars, regVars, frame_cache_enabled, lockVars>>

\* seek / set_frame, lines 1455-1465, worker threading disabled.
SyncSetFrame(frame, nested) ==
    /\ m_pc = "idle"
    /\ ~render_thread_enabled
    /\ total_frames > 0
    /\ LET f == Max(0, Min(frame, total_frames - 1))
           r == RenderFrame(CurrentDraw, rendering, animation, m_segment, f, render_size,
                            pending_resize, playing, nested)
       IN  /\ (nested > 0) => r.exit = "drawn"
           /\ current_frame' = f
           /\ PresentDraw(r.st)
           /\ rendering' = r.rendering
           /\ r_last' = [handler |-> "seek", exit |-> r.exit, nested |-> r.nested,
                         draws |-> r.draws, resized |-> FALSE]
    /\ UNCHANGED <<animation_path, animation, m_segment, playing, looping, speed,
                   total_frames, duration, frame_cache_step>>
    /\ UNCHANGED <<last_posted_size, last_posted_qf, applied_resize>>
    /\ UNCHANGED <<jobVars, frameVars, workerVars, sizeVars, lifeVars>>
    /\ emitted' = {"queue_redraw"}
    /\ UNCHANGED <<last_desired_size, screen_scale>>
    /\ UNCHANGED <<frame_cache_budget_mb, pixVars, regVars, frame_cache_enabled, lockVars>>

\* set_frame_cache_enabled, line 1403.
SetFrameCacheEnabled(p_enable) ==
    /\ m_pc = "idle"
    /\ frame_cache_enabled # p_enable
    /\ frame_cache_enabled' = p_enable
    /\ emitted' = {}
    /\ UNCHANGED <<last_desired_size, screen_scale>>
    /\ UNCHANGED <<jobVars, frameVars, workerVars, sceneVars, sizeVars, drawVars, lifeVars>>
    /\ UNCHANGED <<frame_cache_budget_mb, pixVars, regVars, ringVars, guardVars, frame_cache,
                   lockVars>>

\* LottieFrameCache drops an entry (its eviction policy is its own).
CacheEvict ==
    /\ m_pc = "idle"
    /\ \E e \in frame_cache : frame_cache' = frame_cache \ {e}
    /\ UNCHANGED <<jobVars, frameVars, workerVars, sceneVars, sizeVars, drawVars, lifeVars,
                   hostVars>>
    /\ UNCHANGED <<frame_cache_budget_mb, pixVars, regVars, ringVars, guardVars,
                   frame_cache_enabled, lockVars>>

\* The host of the build without worker threading: it loads one scene, ticks
\* while it zooms, seeks, plays and pauses; the frame cache stays disabled.
NextSync ==
    \/ \E path \in Paths, ok \in BOOLEAN, nested \in 0 .. MaxNested :
          SyncLoad(path, ok, nested)
    \/ \E delta \in ResizeDeltas, scale \in SyncScales, visible \in BOOLEAN,
          nested \in 0 .. MaxNested :
          /\ _elapsed_time + delta <= MaxTime
          /\ SyncTick(delta, scale, visible, nested)
    \/ \E frame \in Frames, nested \in 0 .. MaxNested : SyncSetFrame(frame, nested)
    \/ Play
    \/ Pause

SpecSync == SyncInit /\ [][NextSync]_vars

\* The same host at a fixed on-screen scale: it switches the frame cache on and
\* off, and the cache drops entries.
NextCache ==
    \/ \E path \in Paths, ok \in BOOLEAN, nested \in 0 .. MaxNested :
          SyncLoad(path, ok, nested)
    \/ \E delta \in ResizeDeltas, scale \in Scales, visible \in BOOLEAN,
          nested \in 0 .. MaxNested :
          /\ _elapsed_time + delta <= MaxTime
          /\ SyncTick(delta, scale, visible, nested)
    \/ \E frame \in Frames, nested \in 0 .. MaxNested : SyncSetFrame(frame, nested)
    \/ Play
    \/ Pause
    \/ \E p_enable \in BOOLEAN : SetFrameCacheEnabled(p_enable)
    \/ CacheEvict

SpecCache == SyncInit /\ [][NextCache]_vars

\* The host of a paused scene with the frame cache: it loads, ticks, seeks and
\* switches the cache on and off, and calls of _render_frame arrive while a
\* frame is drawn.
NextGuard ==
    \/ \E path \in Paths, ok \in BOOLEAN, nested \in 0 .. MaxNested :
          SyncLoad(path, ok, nested)
    \/ \E delta \in ResizeDeltas, scale \in Scales, visible \in BOOLEAN,
          nested \in 0 .. MaxNested :
          /\ _elapsed_time + delta <= MaxTime
          /\ SyncTick(delta, scale, visible, nested)
    \/ \E frame \in Frames, nested \in 0 .. MaxNested : SyncSetFrame(frame, nested)
    \/ \E p_enable \in BOOLEAN : SetFrameCacheEnabled(p_enable)

SpecGuard == SyncInit /\ [][NextGuard]_vars

\* The host keeps the scene paused and keeps ticking while the node is on
\* screen: a visible tick that lets no time pass is always possible.
SyncTickIdle == SyncTick(0, screen_scale, TRUE, 0)

NextSyncPaused ==
    \/ \E path \in Paths : SyncLoad(path, TRUE, 0)
    \/ \E delta \in ResizeDeltas, scale \in SyncScales, visible \in BOOLEAN :
          /\ _elapsed_time + delta <= MaxTime
          /\ SyncTick(delta, scale, visible, 0)
    \/ SyncTickIdle
    \/ \E frame \in Frames : SyncSetFrame(frame, 0)

FairSpecSync == SyncInit /\ [][NextSyncPaused]_vars /\ WF_vars(SyncTickIdle)

\* ====================================================== the two mutexes
\* Every lock_guard / unique_lock scope of the source, one step for the lock
\* and one for the end of the scope, to follow which thread owns job_mutex and
\* frame_mutex.  Of the job state only the flags the worker's wait reads are
\* followed here.

\* A scope on mutex m that sets the pending flag `set` before it ends.
LockScope(m, set) ==
    << [op |-> "lock", mutex |-> m, set |-> "none"],
       [op |-> "unlock", mutex |-> m, set |-> set] >>

\* _process, lines 1103-1147: _post_render_to_worker when frame or size
\* changed, then the scope that drains the finished frame.
TickLocks(post) ==
    (IF post THEN LockScope("job", "render") ELSE << >>) \o LockScope("frame", "none")

\* _load_animation, lines 909-921: _post_load_to_worker, _post_render_to_worker,
\* then _post_segment_to_worker when a state segment is selected.
LoadLocks(has_marker) ==
    LockScope("job", "load") \o LockScope("job", "render")
        \o (IF has_marker THEN LockScope("job", "segment") ELSE << >>)

\* A clear that posts the empty load before it leaves the frame_mutex scope.
ClearLocks_Nested ==
    << [op |-> "lock", mutex |-> "frame", set |-> "none"],
       [op |-> "lock", mutex |-> "job", set |-> "none"],
       [op |-> "unlock", mutex |-> "job", set |-> "load"],
       [op |-> "unlock", mutex |-> "frame", set |-> "none"] >>

\* set_animation_path with an empty path, lines 1498-1514: the frame_mutex
\* scope, then _post_load_to_worker.
ClearLocks == LockScope("frame", "none") \o LockScope("job", "load")

\* _apply_selected_state_segment, line 1302: _post_segment_to_worker.
SegmentLocks == LockScope("job", "segment")

\* _stop_worker, lines 1609-1617: the scope that sets worker_stop, then join.
StopLocks ==
    LockScope("job", "stop") \o << [op |-> "join", mutex |-> "none", set |-> "none"] >>

\* The handlers of the main thread that take a mutex.
LockPrograms ==
    { TickLocks(post) : post \in BOOLEAN } \cup { LoadLocks(m) : m \in BOOLEAN }
        \cup { ClearLocks, SegmentLocks }

\* The main thread enters a handler; after _stop_worker (the destructor) it
\* enters none.
LkMainCall(program) ==
    /\ lk_main = << >>
    /\ ~worker_stop
    /\ lk_main' = program
    /\ UNCHANGED <<mutex_owner, lk_worker>>
    /\ UNCHANGED <<jobVars, frameVars, workerVars, sceneVars, sizeVars, drawVars, lifeVars,
                   hostVars>>
    /\ UNCHANGED <<frame_cache_budget_mb, pixVars, regVars, ringVars, cacheVars, guardVars>>

\* The main thread reaches a lock_guard and gets the mutex.
LkMainLock ==
    /\ lk_main # << >>
    /\ Head(lk_main).op = "lock"
    /\ mutex_owner[Head(lk_main).mutex] = "free"
    /\ mutex_owner' = [mutex_owner EXCEPT ![Head(lk_main).mutex] = "main"]
    /\ lk_main' = Tail(lk_main)
    /\ UNCHANGED lk_worker
    /\ UNCHANGED <<jobVars, frameVars, workerVars, sceneVars, sizeVars, drawVars, lifeVars,
                   hostVars>>
    /\ UNCHANGED <<frame_cache_budget_mb, pixVars, regVars, ringVars, cacheVars, guardVars>>

\* The main thread writes under the mutex and leaves the scope.
LkMainUnlock ==
    /\ lk_main # << >>
    /\ Head(lk_main).op = "unlock"
    /\ mutex_owner' = [mutex_owner EXCEPT ![Head(lk_main).mutex] = "free"]
    /\ lk_main' = Tail(lk_main)
    /\ load_pending' = (load_pending \/ Head(lk_main).set = "load")
    /\ render_pending' = (render_pending \/ Head(lk_main).set = "render")
    /\ segment_pending' = (segment_pending \/ Head(lk_main).set = "segment")
    /\ worker_stop' = (worker_stop \/ Head(lk_main).set = "stop")
    /\ UNCHANGED lk_worker
    /\ UNCHANGED <<pending_path8, pending_segment, pending_r_size, pending_r_frame,
                   render_posts>>
    /\ UNCHANGED <<frameVars, workerVars, sceneVars, sizeVars, drawVars, lifeVars, hostVars>>
    /\ UNCHANGED <<frame_cache_budget_mb, pixVars, regVars, ringVars, cacheVars, guardVars>>

\* render_thread.join() returns once the worker has left its loop.
LkMainJoin ==
    /\ lk_main # << >>
    /\ Head(lk_main).op = "join"
    /\ lk_worker = "done"
    /\ lk_main' = Tail(lk_main)
    /\ UNCHANGED <<mutex_owner, lk_worker>>
    /\ UNCHANGED <<jobVars, frameVars, workerVars, sceneVars, sizeVars, drawVars, lifeVars,
                   hostVars>>
    /\ UNCHANGED <<frame_cache_budget_mb, pixVars, regVars, ringVars, cacheVars, guardVars>>

\* The mutex the worker's next lock takes: line 1777, 1788, 1836 or 1862.
WorkerLockSites ==
    [wait_lock |-> "job", jobs_lock |-> "job", render_lock |-> "job",
     publish_lock |-> "frame"]

\* Where the worker stands once it has the mutex.
WorkerHeldSites ==
    [wait_lock |-> "wait_held", jobs_lock |-> "jobs_held", render_lock |-> "render_held",
     publish_lock |-> "publish_held"]

\* The worker reaches a lock and gets the mutex.
LkWorkerLock ==
    /\ lk_worker \in DOMAIN WorkerLockSites
    /\ mutex_owner[WorkerLockSites[lk_worker]] = "free"
    /\ mutex_owner' = [mutex_owner EXCEPT ![WorkerLockSites[lk_worker]] = "worker"]
    /\ lk_worker' = WorkerHeldSites[lk_worker]
    /\ UNCHANGED lk_main
    /\ UNCHANGED <<jobVars, frameVars, workerVars, sceneVars, sizeVars, drawVars, lifeVars,
                   hostVars>>
    /\ UNCHANGED <<frame_cache_budget_mb, pixVars, regVars, ringVars, cacheVars, guardVars>>

\* job_cv.wait, line 1778: the predicate is false, the worker gives job_mutex
\* back and sleeps.
LkWorkerSleep ==
    /\ lk_worker = "wait_held"
    /\ ~WaitPredicate
    /\ mutex_owner' = [mutex_owner EXCEPT !["job"] = "free"]
    /\ lk_worker' = "asleep"
    /\ UNCHANGED lk_main
    /\ UNCHANGED <<jobVars, frameVars, workerVars, sceneVars, sizeVars, drawVars, lifeVars,
                   hostVars>>
    /\ UNCHANGED <<frame_cache_budget_mb, pixVars, regVars, ringVars, cacheVars, guardVars>>

\* job_cv.wait: the worker wakes up and takes job_mutex again to test the
\* predicate.
LkWorkerWake ==
    /\ lk_worker = "asleep"
    /\ mutex_owner["job"] = "free"
    /\ mutex_owner' = [mutex_owner EXCEPT !["job"] = "worker"]
    /\ lk_worker' = "wait_held"
    /\ UNCHANGED lk_main
    /\ UNCHANGED <<jobVars, frameVars, workerVars, sceneVars, sizeVars, drawVars, lifeVars,
                   hostVars>>
    /\ UNCHANGED <<frame_cache_budget_mb, pixVars, regVars, ringVars, cacheVars, guardVars>>

\* Lines 1778-1780: the predicate holds; the scope ends, at the break too.
LkWorkerLeaveWait ==
    /\ lk_worker = "wait_held"
    /\ WaitPredicate
    /\ mutex_owner' = [mutex_owner EXCEPT !["job"] = "free"]
    /\ lk_worker' = IF worker_stop THEN "done" ELSE "jobs_lock"
    /\ UNCHANGED lk_main
    /\ UNCHANGED <<jobVars, frameVars, workerVars, sceneVars, sizeVars, drawVars, lifeVars,
                   hostVars>>
    /\ UNCHANGED <<frame_cache_budget_mb, pixVars, regVars, ringVars, cacheVars, guardVars>>

\* Lines 1787-1800: the worker copies the load and the segment request out.
LkWorkerUnlockJobs ==
    /\ lk_worker = "jobs_held"
    /\ mutex_owner' = [mutex_owner EXCEPT !["job"] = "free"]
    /\ load_pending' = FALSE
    /\ segment_pending' = FALSE
    /\ lk_worker' = "render_lock"
    /\ UNCHANGED lk_main
    /\ UNCHANGED <<worker_stop, pending_path8, pending_segment, render_pending,
                   pending_r_size, pending_r_frame, render_posts>>
    /\ UNCHANGED <<frameVars, workerVars, sceneVars, sizeVars, drawVars, lifeVars, hostVars>>
    /\ UNCHANGED <<frame_cache_budget_mb, pixVars, regVars, ringVars, cacheVars, guardVars>>

\* Lines 1835-1845: the worker copies the render request out; it goes on to
\* publish when there was one and it has a scene (has_scene), and back to the
\* wait otherwise.
LkWorkerUnlockRender(has_scene) ==
    /\ lk_worker = "render_held"
    /\ mutex_owner' = [mutex_owner EXCEPT !["job"] = "free"]
    /\ render_pending' = FALSE
    /\ lk_worker' = IF render_pending /\ has_scene THEN "publish_lock" ELSE "wait_lock"
    /\ UNCHANGED lk_main
    /\ UNCHANGED <<worker_stop, load_pending, pending_path8, segment_pending,
                   pending_segment, pending_r_size, pending_r_frame, render_posts>>
    /\ UNCHANGED <<frameVars, workerVars, sceneVars, sizeVars, drawVars, lifeVars, hostVars>>
    /\ UNCHANGED <<frame_cache_budget_mb, pixVars, regVars, ringVars, cacheVars, guardVars>>

\* Lines 1861-1868: the worker has published and leaves the frame_mutex scope.
LkWorkerUnlockPublish ==
    /\ lk_worker = "publish_held"
    /\ mutex_owner' = [mutex_owner EXCEPT !["frame"] = "free"]
    /\ lk_worker' = "wait_lock"
    /\ UNCHANGED lk_main
    /\ UNCHANGED <<jobVars, frameVars, workerVars, sceneVars, sizeVars, drawVars, lifeVars,
                   hostVars>>
    /\ UNCHANGED <<frame_cache_budget_mb, pixVars, regVars, ringVars, cacheVars, guardVars>>

NextLocks ==
    \/ \E program \in LockPrograms : LkMainCall(program)
    \/ LkMainCall(StopLocks)
    \/ LkMainLock
    \/ LkMainUnlock
    \/ LkMainJoin
    \/ LkWorkerLock
    \/ LkWorkerSleep
    \/ LkWorkerWake
    \/ LkWorkerLeaveWait
    \/ LkWorkerUnlockJobs
    \/ \E has_scene \in BOOLEAN : LkWorkerUnlockRender(has_scene)
    \/ LkWorkerUnlockPublish

SpecLocks == Init /\ [][NextLocks]_vars

\* ================================================================== claims
\* The tick's upload of the finished frame: the step that leaves the drain
\* with _uploaded_this_frame set (the tick reset the flag before the drain).
\* C1: the consumer never uploads a finished frame whose id is less than or
\* equal to last_consumed_id: every upload takes a ready frame with a greater
\* id and moves last_consumed_id to that id, and last_consumed_id never
\* decreases, so a published frame is uploaded at most once.
C1_UploadsOnlyNewerFrames ==
    [][ /\ (m_pc = "process_drain" /\ _uploaded_this_frame')
             => /\ latest_frame.ready
                /\ latest_frame.id > last_consumed_id
                /\ last_consumed_id' = latest_frame.id
                /\ texture' = FrameTexture(latest_frame.rgba)
        /\ last_consumed_id' >= last_consumed_id ]_vars

\* A second frame has been uploaded.
C1_Witness ==
    /\ _uploaded_this_frame /\ m_pc = "idle"
    /\ texture.kind = "frame"
    /\ last_consumed_id = latest_frame.id /\ ~latest_frame.ready
    /\ latest_frame.id >= 2

\* C2: the id in the finished frame slot is strictly increasing: every publish
\* writes an id greater than the one it replaces, no other step changes the
\* id, and next_frame_id is only ever incremented, by publishes alone.
C2_FrameIdStrictlyIncreasing ==
    [][ IF w_pc = "publish" /\ w_pc' = "wait"
        THEN /\ latest_frame'.id > latest_frame.id
             /\ latest_frame'.ready
             /\ next_frame_id' > next_frame_id
             /\ latest_frame'.id < next_frame_id'
        ELSE /\ latest_frame'.id = latest_frame.id
             /\ next_frame_id' = next_frame_id ]_vars

\* A second frame has been published.
C2_Witness == latest_frame.ready /\ latest_frame.id >= 2

\* C3: a tick that finds the slot ready with a new id but a size different
\* from render_size uploads nothing, clears ready and leaves last_consumed_id
\* alone; every frame a tick uploads has exactly the current render_size.
C3_MismatchedFrameDiscarded ==
    [][ (m_pc = "process_drain" /\ m_pc' = "idle")
          => /\ ( /\ latest_frame.ready
                  /\ latest_frame.id > last_consumed_id
                  /\ <<latest_frame.w, latest_frame.h>> # render_size )
                  => /\ ~latest_frame'.ready
                     /\ last_consumed_id' = last_consumed_id
                     /\ texture' = texture
                     /\ ~_uploaded_this_frame'
             /\ _uploaded_this_frame'
                  => /\ <<latest_frame.w, latest_frame.h>> = render_size
                     /\ texture'.pixels.size = render_size ]_vars

\* A frame of another size has been dropped: not ready, never consumed.
C3_Witness ==
    /\ m_pc = "idle"
    /\ ~latest_frame.ready
    /\ latest_frame.id > last_consumed_id
    /\ <<latest_frame.w, latest_frame.h>> # render_size

\* C4: within one wake-up the worker applies a pending load before a pending
\* segment and both before the render: the frame an iteration has rasterized
\* shows the scene of the load the iteration took, and the segment it took,
\* set on that scene.
C4_LoadThenSegmentThenRender ==
    (w_pc = "publish")
      => /\ do_load => (path8_local # NoPath /\ tmp.scene = path8_local)
         /\ do_segment => tmp.segment = seg_local
         /\ (do_load /\ ~do_segment) => tmp.segment = NoSegment

\* One iteration took a load and a segment and has rasterized.
C4_Witness == w_pc = "publish" /\ do_load /\ do_segment

\* C5: posting a render request never clears or overwrites a pending load or
\* segment request; a pending load or segment stays pending until the worker
\* copies it out.
C5_RenderPostKeepsLoadAndSegment ==
    [][ /\ ( /\ render_pending'
             /\ \/ ~render_pending
                \/ pending_r_size' # pending_r_size
                \/ pending_r_frame' # pending_r_frame
                \/ render_posts' # render_posts )
             => UNCHANGED <<load_pending, pending_path8, segment_pending, pending_segment>>
        /\ (load_pending /\ ~load_pending')
             => (w_pc = "take_jobs" /\ do_load' /\ path8_local' = pending_path8)
        /\ (segment_pending /\ ~segment_pending')
             => (w_pc = "take_jobs" /\ do_segment' /\ seg_local' = pending_segment) ]_vars

\* After a tick's post, a load, a segment and a render request are pending
\* together.
C5_Witness ==
    /\ m_pc = "process_drain"
    /\ render_pending /\ pending_r_size = last_posted_size
    /\ load_pending /\ segment_pending

\* C6: an idle worker blocks until stop, load, segment or render is pending: a
\* segment request posted while the worker waits with a loaded scene lets the
\* worker leave the wait, with no further load or render request.
C6_SegmentWakesWorker ==
    (w_pc = "wait" /\ w_canvas /\ w_animation # NoScene /\ segment_pending)
      => ENABLED WorkerWait

\* C7: render requests are latest-wins: every post overwrites the pending
\* request with the size and frame of the moment, and the worker, however many
\* requests were posted before it takes one, rasterizes once, at the size and
\* frame of the request pending at the take, and leaves none pending.
C7_RenderLatestWins ==
    [][ /\ (render_posts' > render_posts)
             => /\ render_pending'
                /\ pending_r_size' = render_size'
                /\ pending_r_frame' = current_frame'
        /\ (w_pc = "take_render" /\ w_pc' = "publish")
             => /\ render_pending
                /\ tmp'.size = pending_r_size
                /\ tmp'.frame = pending_r_frame
                /\ w_render_size' = pending_r_size
        /\ (w_pc = "take_render" /\ w_pc' # w_pc)
             => (~render_pending' /\ render_posts' = 0) ]_vars

\* The worker has rasterized one frame for several posted requests.
C7_Witness ==
    /\ w_pc = "publish"
    /\ served_batch = MaxBatch
    /\ ~render_pending

\* C8: after _stop_worker has set worker_stop and notified, the worker thread
\* terminates, whether it was blocked in the wait or inside an iteration, and
\* the join returns.
C8_StopTerminatesWorker ==
    worker_stop ~> (w_pc = "done" /\ render_thread = "joined")

\* The stop flag has been set while the worker is inside an iteration.
C8_Witness == worker_stop /\ w_pc \in {"take_jobs", "take_render", "publish"}

\* C9: once the stop flag is set, the worker takes and starts no render
\* request.
C9_NoRenderTakenAfterStop ==
    [][ (worker_stop /\ w_pc = "take_render") => w_pc' # "publish" ]_vars

\* C10: the worker-private resources are released only by the stopping
\* thread and only after the join: a step of another thread changes them, and
\* the canvas and the buffer go away, only when the worker has left its loop
\* and has been joined.
C10_FreeOnlyAfterJoin ==
    [][ ( \/ /\ w_pc' = w_pc
             /\ <<w_canvas, w_animation, w_segment, w_buffer, w_render_size>>'
                  # <<w_canvas, w_animation, w_segment, w_buffer, w_render_size>>
          \/ (w_canvas /\ ~w_canvas')
          \/ (w_buffer /\ ~w_buffer') )
          => (m_pc = "stop_free" /\ w_pc = "done" /\ render_thread = "joined") ]_vars

\* The resources of a worker that has rendered have been released.
C10_Witness ==
    /\ m_pc = "destroyed"
    /\ latest_frame.id >= 1
    /\ ~w_canvas /\ ~w_buffer /\ w_animation = NoScene

\* C11: two resize triggers within the minimum resize interval give one
\* reallocation: a resize the tick applies comes at least _min_resize_interval
\* of tick time after the one before, and a tick that has a resize pending
\* within the interval leaves it pending and the render size alone.
C11_ResizeRateLimited ==
    [][ /\ (_last_resize_at' # _last_resize_at)
             => /\ _last_resize_at' = _elapsed_time'
                /\ \/ _last_resize_at < 0
                   \/ _elapsed_time' - _last_resize_at >= MinResizeInterval
        /\ ( /\ _elapsed_time' > _elapsed_time
             /\ (pending_resize \/ pending_target_size' # pending_target_size)
             /\ _last_resize_at >= 0
             /\ _elapsed_time' - _last_resize_at < MinResizeInterval )
             => /\ pending_resize'
                /\ render_size' = render_size
                /\ _last_resize_at' = _last_resize_at ]_vars

\* A second trigger waits inside the interval of the first resize.
C11_Witness ==
    /\ pending_resize
    /\ _last_resize_at >= 0
    /\ _elapsed_time > _last_resize_at
    /\ _elapsed_time - _last_resize_at < MinResizeInterval
    /\ pending_target_size # render_size

\* C12: a resize the rate limit deferred is never lost: pending_resize is
\* cleared only by a tick that applies the pending target, a tick inside the
\* interval keeps it, and the first tick at which the interval has elapsed
\* (with a canvas) applies it.
C12_DeferredResizeApplied ==
    [][ /\ (pending_resize /\ ~pending_resize')
             => /\ _last_resize_at' = _elapsed_time'
                /\ render_size' = << Min(pending_target_size'[1], max_render_size[1]),
                                     Min(pending_target_size'[2], max_render_size[2]) >>
        /\ ( /\ _elapsed_time' > _elapsed_time
             /\ pending_resize
             /\ canvas
             /\ \/ _last_resize_at < 0
                \/ _elapsed_time' - _last_resize_at >= MinResizeInterval )
             => /\ ~pending_resize'
                /\ _last_resize_at' = _elapsed_time'
                /\ render_size' = << Min(pending_target_size'[1], max_render_size[1]),
                                     Min(pending_target_size'[2], max_render_size[2]) >> ]_vars

\* A tick has applied a target that an earlier tick left pending: the size the
\* tick itself desired is another one.
C12_Witness ==
    /\ m_pc = "process_drain" /\ applied_resize
    /\ _last_resize_at = _elapsed_time
    /\ _last_resize_at >= MinResizeInterval
    /\ render_size = pending_target_size
    /\ last_desired_size # pending_target_size

\* C13: resolution hysteresis: a tick with dynamic resolution takes the desired
\* size as the pending target only when it differs from render_size and the
\* relative delta on the x or the y axis strictly exceeds resolution_threshold;
\* otherwise pending_target_size is unchanged and a pending_resize that was
\* false stays false, with the render size as it was.
C13_ResolutionHysteresis ==
    [][ (_elapsed_time' > _elapsed_time /\ dynamic_resolution)
          => LET d == last_desired_size'
                 over(i) == Abs(d[i] - render_size[i]) * 100
                              > resolution_threshold * Max(1, render_size[i])
             IN  IF d # render_size /\ (over(1) \/ over(2))
                 THEN /\ pending_target_size' = d
                      /\ (pending_resize' \/ _last_resize_at' = _elapsed_time')
                 ELSE /\ pending_target_size' = pending_target_size
                      /\ ~pending_resize
                           => (~pending_resize' /\ render_size' = render_size
                               /\ _last_resize_at' = _last_resize_at) ]_vars

\* The desired size differs from the render size by exactly the threshold,
\* and no resize is pending.
C13_Witness ==
    /\ _elapsed_time > 0
    /\ last_desired_size # render_size
    /\ Abs(last_desired_size[1] - render_size[1]) * 100
         = resolution_threshold * Max(1, render_size[1])
    /\ Abs(last_desired_size[2] - render_size[2]) * 100
         = resolution_threshold * Max(1, render_size[2])
    /\ ~pending_resize
    /\ pending_target_size # last_desired_size

\* C14: the desired render size is, per axis, the minimum of max_render_size
\* and the smallest multiple of 16 that is at least box size times scale: it
\* is either such a multiple within the maximum, or the maximum when that
\* multiple lies beyond it.
C14_DesiredSizeQuantized ==
    [][ (_elapsed_time' > _elapsed_time /\ dynamic_resolution)
          => \A i \in {1, 2} :
               LET d == last_desired_size'[i]
                   x == fit_box_size[i] * screen_scale'
                   top == max_render_size[i] - (max_render_size[i] % 16)
               IN  \/ /\ d % 16 = 0
                      /\ d * 100 >= x
                      /\ (d - 16) * 100 < x
                      /\ d <= max_render_size[i]
                   \/ /\ d = max_render_size[i]
                      /\ top * 100 < x ]_vars

\* A scaled box of 564 px has been rounded up to 576.
C14_Witness ==
    /\ screen_scale = 110
    /\ fit_box_size = <<512, 512>>
    /\ last_desired_size = <<576, 576>>

\* C15: in threaded mode a tick posts a render request only when the render
\* size or the quantized frame differs from those of the last posted request,
\* and then posts exactly them; a tick with both unchanged, or outside the
\* visible tree, leaves the pending render request alone.
C15_TickPostsOnlyChanges ==
    [][ /\ (m_pc = "idle" /\ m_pc' = "process_drain")
             => IF \/ render_size' # last_posted_size
                   \/ _quantized_frame_index(current_frame', frame_cache_step)
                        # last_posted_qf
                THEN /\ render_pending'
                     /\ pending_r_size' = render_size'
                     /\ pending_r_frame' = current_frame'
                     /\ last_posted_size' = render_size'
                     /\ last_posted_qf'
                          = _quantized_frame_index(current_frame', frame_cache_step)
                ELSE UNCHANGED <<render_pending, pending_r_size, pending_r_frame,
                                 render_posts, last_posted_size, last_posted_qf>>
        /\ (m_pc = "idle" /\ m_pc' = "idle" /\ w_pc' = w_pc)
             => UNCHANGED <<render_pending, pending_r_size, pending_r_frame,
                            render_posts, last_posted_size, last_posted_qf>> ]_vars

\* A tick has posted nothing: the frame of the last request was uploaded by an
\* earlier tick, the worker is idle and no request is pending.
C15_Witness ==
    /\ m_pc = "process_drain"
    /\ last_posted_size = render_size /\ last_posted_qf = current_frame
    /\ ~render_pending /\ render_posts = 0 /\ w_pc = "wait"
    /\ last_consumed_id >= 1 /\ latest_frame.id = last_consumed_id

C17_FinishedOnceAtEnd ==
    [][ LET delta == _elapsed_time' - _elapsed_time
            advanced == current_frame + (total_frames * delta * speed) \div duration
        IN  /\ (m_pc = "idle" /\ w_pc' = w_pc /\ "animation_finished" \in emitted')
                 => /\ playing /\ ~looping /\ ~playing'
                    /\ advanced >= total_frames
                    /\ current_frame' = total_frames - 1
            /\ ( /\ delta > 0 /\ playing /\ ~looping
                 /\ animation # NoScene /\ total_frames > 0 )
                 => IF advanced >= total_frames
                    THEN /\ "animation_finished" \in emitted'
                         /\ ~playing'
                         /\ current_frame' = total_frames - 1
                    ELSE /\ "animation_finished" \notin emitted'
                         /\ playing'
                         /\ current_frame' = advanced
            /\ (~playing /\ playing')
                 => (delta = 0 /\ "animation_finished" \notin emitted') ]_vars

\* A scene that does not loop has finished on its last frame.
C17_Witness ==
    /\ "animation_finished" \in emitted
    /\ ~playing /\ ~looping
    /\ current_frame = total_frames - 1

\* C18: with looping enabled, a tick that advances the frame to or past
\* total_frames wraps it to the frame modulo total_frames, keeps playing and
\* emits no animation_finished; a tick while not playing leaves current_frame
\* unchanged.
C18_LoopWraps ==
    [][ LET delta == _elapsed_time' - _elapsed_time
            advanced == current_frame + (total_frames * delta * speed) \div duration
        IN  /\ ( /\ delta > 0 /\ playing /\ looping
                 /\ animation # NoScene /\ total_frames > 0 )
                 => /\ current_frame' = IF advanced >= total_frames
                                        THEN advanced % total_frames ELSE advanced
                    /\ playing'
                    /\ "animation_finished" \notin emitted'
            /\ (delta > 0 /\ ~playing)
                 => (current_frame' = current_frame /\ ~playing') ]_vars

\* A looping scene has wrapped: it plays at a frame before the one the tick
\* posted last.
C18_Witness ==
    /\ playing /\ looping
    /\ _elapsed_time > 0
    /\ current_frame < last_posted_qf

\* C19: with a segment set, a seek presents a frame inside the segment: a
\* frame the main thread has rendered under the active segment lies in
\* [begin, end).
C19_SeekClampsIntoSegment ==
    ( /\ m_segment # NoSegment
      /\ texture.kind = "frame"
      /\ texture.pixels.segment = m_segment )
      => /\ texture.pixels.frame >= m_segment[1]
         /\ texture.pixels.frame < m_segment[2]

\* C20: every load attempt on a non-empty path ends with one animation_loaded
\* notification: animation_loaded(false) when the attempt fails,
\* animation_loaded(true) when it succeeds.
C20_EveryLoadNotifies ==
    [][ /\ ( /\ m_pc = "idle" /\ m_pc' = "idle"
             /\ animation_path' # animation_path /\ animation_path' # NoPath )
             => emitted' = {"animation_loaded_false"}
        /\ (m_pc \in {"load_render", "load_segment"} /\ m_pc' = "idle")
             => /\ "animation_loaded_true" \in emitted'
                /\ "animation_loaded_false" \notin emitted' ]_vars

C21_WorkerSurvivesFailedLoad ==
    /\ [][ /\ (w_load_outcome # "failed" /\ w_load_outcome' = "failed")
                => /\ w_animation' = NoScene
                   /\ w_pc' = "take_render"
                   /\ w_canvas'
           /\ (w_load_outcome = "failed" /\ w_load_outcome' = "recovered")
                => /\ load_pending /\ ~load_pending'
                   /\ w_animation' = pending_path8
                   /\ w_animation' # NoScene
                   /\ w_pc' = "take_render"
           /\ (w_load_outcome # "none" /\ w_pc # "done" /\ w_pc' = "done")
                => worker_stop ]_vars
    /\ ( /\ w_load_outcome = "recovered" /\ w_pc = "take_render"
         /\ w_animation # NoScene
         /\ render_pending /\ pending_r_size[1] > 0 /\ pending_r_size[2] > 0 )
         ~> ( /\ w_load_outcome = "none" /\ latest_frame.ready
              /\ latest_frame.rgba.scene = w_animation )

\* After a failed load the worker has loaded a scene and rasterized a frame
\* of it that it is about to publish.
C21_Witness ==
    /\ w_load_outcome = "recovered"
    /\ w_pc = "publish"
    /\ tmp.scene = w_animation /\ w_animation # NoScene

\* C26: in threaded mode, once the scene is loaded on both threads and the
\* target (quantized frame, render size) no longer changes, the presented
\* image is again and again the frame rendered for that target: no other or
\* empty image stays displayed forever while ticks continue.
C26_ConvergesToTarget ==
    ( /\ <>[](animation \in Paths /\ w_animation = animation /\ next_frame_id <= MaxFrameId)
      /\ <>[][UNCHANGED <<current_frame, render_size, animation>>]_vars )
    => []<>( texture = FrameTexture(RenderPixels(animation, m_segment,
                   _quantized_frame_index(current_frame, frame_cache_step),
                   render_size)) )

\* C28: while the worker thread is alive it reads and writes only its own w_*
\* state and the shared fields under job_mutex or frame_mutex: it touches no
\* main-thread field (buffer, render_size, canvas) without a lock.
C28_WorkerTouchesOnlyGuardedState ==
    w_pc # "done" => w_unguarded = {}

C29_SettersClamp ==
    /\ ~FloatLess(resolution_threshold, MinThresholdPct) /\ resolution_threshold # NaN
    /\ ~FloatGreater(resolution_threshold, MaxThresholdPct)
    /\ frame_cache_budget_mb >= MinCacheBudgetMb
    /\ frame_cache_step >= 1
    /\ ~FloatLess(speed, 0) /\ speed # NaN

\* C27: the usage registry counts live instances per source: the count stored
\* for a key equals the number of live nodes rendering that source, and a key
\* no live node renders is absent (count 0).
C27_RegistryCountsLiveInstances ==
    \A k \in RegistryKeys :
        g_anim_usage_counts[k] =
            Cardinality({i \in Nodes : node_alive[i] /\ node_source[i] = k})

\* C23: for every pixel count, also one not divisible by 4, the vector build
\* (shuffles plus scalar tail) and the scalar build write the same bytes: for
\* each pixel p the bytes (p>>16)&0xFF, (p>>8)&0xFF, p&0xFF, (p>>24)&0xFF.
C23_VectorEqualsScalar ==
    px_pass \in {"convert_simd", "convert_scalar"}
      => /\ Len(px_rgba) = 4 * Len(px_src)
         /\ \A i \in 1 .. Len(px_src) :
              LET p == px_src[i] IN
              /\ px_rgba[4 * (i - 1) + 1] = p[1] % 256
              /\ px_rgba[4 * (i - 1) + 2] = (p[2] \div 256) % 256
              /\ px_rgba[4 * (i - 1) + 3] = p[2] % 256
              /\ px_rgba[4 * (i - 1) + 4] = (p[1] \div 256) % 256

\* The vector build has converted five pixels: one shuffle and a tail pixel
\* that is not black, after lanes that differ.
C23_Witness ==
    /\ px_pass = "convert_simd"
    /\ Len(px_src) = 5
    /\ px_src[5] # <<0, 0>> /\ px_src[1] # px_src[2]
    /\ px_rgba[17] = px_src[5][1] % 256

\* C24: one unpremultiply pass keeps every alpha byte; a pixel with alpha 0
\* gets RGB (0,0,0), a pixel with alpha 255 is unchanged, and any other pixel
\* gets min(255, (c*255 + alpha/2) div alpha) per channel; so an image whose
\* alpha is 255 everywhere is left as it is.
C24_UnpremultiplyMapsPixels ==
    [][(px_pass' = "unpremultiply" /\ px_w > 0 /\ px_h > 0)
         => /\ Len(px_rgba') = Len(px_rgba)
            /\ \A i \in 0 .. (px_w * px_h - 1) :
                 LET a == px_rgba[4 * i + 4] IN
                 /\ px_rgba'[4 * i + 4] = a
                 /\ \A c \in 1 .. 3 :
                      LET v == (px_rgba[4 * i + c] * 255 + (a \div 2)) \div a IN
                      px_rgba'[4 * i + c] =
                          IF a = 0 THEN 0
                          ELSE IF a = 255 THEN px_rgba[4 * i + c]
                          ELSE IF v > 255 THEN 255 ELSE v
            /\ (\A i \in 0 .. (px_w * px_h - 1) : px_rgba[4 * i + 4] = 255)
                 => px_rgba' = px_rgba]_vars

\* A pass has rescaled a half-transparent pixel and zeroed the colour of a
\* transparent one.
C24_Witness ==
    /\ px_pass = "unpremultiply"
    /\ px_w * px_h = 2
    /\ \E i \in 0 .. 1 :
         /\ px_in[4 * i + 4] \notin {0, 255}
         /\ px_rgba[4 * i + 1] > px_in[4 * i + 1]
    /\ \E j \in 0 .. 1 :
         /\ px_in[4 * j + 4] = 0
         /\ px_in[4 * j + 1] # 0
         /\ px_rgba[4 * j + 1] = 0

\* C25: one border-fix pass keeps every alpha byte and every pixel, except
\* that an interior pixel with alpha 0 that has a neighbour with alpha > 0
\* gets the RGB which the first such neighbour (rows top to bottom, left to
\* right within a row) had before the pass; border pixels and pixels with
\* alpha > 0 keep their bytes, and nothing written in the pass is a source.
C25_BorderFixCopiesFirstNeighbour ==
    [][px_pass' = "fix_alpha_border"
         => /\ Len(px_rgba') = Len(px_rgba)
            /\ \A x \in 0 .. (px_w - 1), y \in 0 .. (px_h - 1) :
                 LET o == (y * px_w + x) * 4
                     interior == x >= 1 /\ x <= px_w - 2 /\ y >= 1 /\ y <= px_h - 2
                     nb == {d \in ((-1 .. 1) \X (-1 .. 1)) \ {<<0, 0>>} :
                               px_rgba[((y + d[2]) * px_w + (x + d[1])) * 4 + 4] > 0}
                 IN  /\ px_rgba'[o + 4] = px_rgba[o + 4]
                     /\ IF interior /\ px_rgba[o + 4] = 0 /\ nb # {}
                        THEN LET first == CHOOSE d \in nb : \A e \in nb :
                                              d[2] < e[2] \/ (d[2] = e[2] /\ d[1] <= e[1])
                                 src == ((y + first[2]) * px_w + (x + first[1])) * 4
                             IN  \A c \in 1 .. 3 : px_rgba'[o + c] = px_rgba[src + c]
                        ELSE \A c \in 1 .. 3 : px_rgba'[o + c] = px_rgba[o + c]]_vars

\* A pass has recoloured an interior transparent pixel that had two
\* neighbours with alpha > 0 of different colours, in an image with two
\* interior pixels.
C25_Witness ==
    /\ px_pass = "fix_alpha_border"
    /\ px_w = 4 /\ px_h = 3
    /\ px_in[(1 * 4 + 1) * 4 + 4] = 0
    /\ px_in[(1 * 4 + 2) * 4 + 4] = 0
    /\ px_rgba[(1 * 4 + 1) * 4 + 1] # px_in[(1 * 4 + 1) * 4 + 1]
    /\ px_rgba[(1 * 4 + 2) * 4 + 1] # px_in[(1 * 4 + 2) * 4 + 1]
    /\ px_rgba[(1 * 4 + 1) * 4 + 1] # px_rgba[(1 * 4 + 2) * 4 + 1]

\* C33: once the path has been cleared, no tick uploads a frame: while the
\* path is empty the presented texture never holds rendered pixels, whatever
\* the worker had in flight or still pending at the clear.
C33_NoUploadAfterClear ==
    animation_path = NoPath => texture.kind # "frame"

\* C34: every frame the worker publishes for a scene that was loaded after a
\* clear is accepted by the consumer test: its id is above last_consumed_id.
C34_FirstFrameAfterClearAccepted ==
    [][(/\ latest_frame'.ready
        /\ latest_frame'.id # latest_frame.id
        /\ latest_frame'.rgba.scene \in NewScenePaths)
         => latest_frame'.id > last_consumed_id']_vars

\* C36: a tick that applies a resize (it stamps _last_resize_at) leaves the
\* render size at the desired size that this tick has computed.
C36_AppliedSizeIsLatestDesired ==
    [][(dynamic_resolution /\ _last_resize_at' # _last_resize_at)
         => render_size' = last_desired_size']_vars

\* C37: render_size is positive and within max_render_size on both axes, and
\* a tick that counts a resize as applied had a target the allocation accepts.
C37_RenderSizeWithinBounds ==
    /\ render_size[1] > 0 /\ render_size[2] > 0
    /\ render_size[1] <= max_render_size[1] /\ render_size[2] <= max_render_size[2]
    /\ applied_resize => (pending_target_size[1] > 0 /\ pending_target_size[2] > 0)

C31_SyncTickRendersOnlyWhenStale ==
    [][ ( /\ ~render_thread_enabled
          /\ _elapsed_time' > _elapsed_time
          /\ ~pending_resize'
          /\ first_frame_drawn
          /\ _quantized_frame_index(current_frame', frame_cache_step) = last_rendered_qf )
        => ( /\ r_last'.draws = 0
             /\ r_last'.exit \notin {"drawn", "cache_hit"}
             /\ ~_uploaded_this_frame'
             /\ last_rendered_qf' = last_rendered_qf
             /\ texture' \in {texture, PlaceholderTexture, BlankTexture} ) ]_vars

\* A tick has passed over a loaded, paused scene whose frame is on screen and
\* has not called _render_frame.
C31_Witness ==
    /\ ~render_thread_enabled /\ animation \in Paths /\ ~playing
    /\ r_last.handler = "tick" /\ r_last.exit = "not_called"
    /\ first_frame_drawn /\ ~pending_resize /\ _elapsed_time > 0
    /\ last_rendered_qf = _quantized_frame_index(current_frame, frame_cache_step)
    /\ texture.kind = "frame" /\ ~_uploaded_this_frame

C38_CachedEntryShowsItsFrame ==
    \A e \in frame_cache :
        LET shown == CacheContent(e, texture_ring) IN
        /\ shown.kind = "frame"
        /\ shown.pixels.scene = e.key
        /\ _quantized_frame_index(shown.pixels.frame, frame_cache_step) = e.qf
        /\ shown.pixels.size = e.size

\* C39: with worker threading disabled and the scene paused, a tick that has
\* applied a resize is followed by a state in which the texture shows the
\* current frame rasterized at the new render size.
C39_ResizedFrameRerendered ==
    ( /\ ~render_thread_enabled /\ animation \in Paths /\ ~playing
      /\ r_last.handler = "tick" /\ r_last.resized )
    ~> ( /\ texture.kind = "frame"
         /\ texture.pixels.size = render_size
         /\ texture.pixels.frame = current_frame )

====
